---- MODULE Spec2Model ----
(***************************************************************************)
(* A model of the core of dicom-rs: the DICOM JSON deserializer            *)
(* (json/src/de/mod.rs), the transfer syntax registry, tag parsing and     *)
(* the byte length of primitive values.                                    *)
(*                                                                         *)
(* Each component is a state machine of its own (SpecJson, SpecTag,        *)
(* SpecRegistry, SpecValue); the variables of the other components keep    *)
(* their initial value.                                                    *)
(***************************************************************************)
EXTENDS Integers, Sequences, FiniteSets, TLC

VARIABLES
    \* DataElementVisitor::visit_map
    doc,            \* the (key, value) entries the map access has handed out
    pc,             \* "start" | "loop" | "done" | "err" | "panic"
    vr,             \* local `vr`
    values,         \* local `values: Option<Value>`
    inline_binary,  \* local `inline_binary: Option<String>`
    result,         \* what visit_map returned
    \* Tag formatting and parsing
    tag, tagText, tagParsed, tagPc,
    \* transfer syntax registry
    registry, submissions, frozen, query, found,
    \* DataElement::new and the encoder
    elemValue, elemVr, elemLen, written, valPc,
    \* the deserializer of a data set: the entries handed out so far, the
    \* object being built, the position and the error
    objDoc, obj, objPc, objErr,
    \* decode_pixel_data: the object, the position, the call made to the
    \* third-party decoder, the decoded bytes and the returned Result
    pixObj, pixPc, pixCall, pixData, pixResult,
    \* decode_header: the bytes of the source, the number of them consumed,
    \* the position in the function, the tag and VR read, the returned Result
    hdrSource, hdrPos, hdrPc, hdrTag, hdrVr, hdrResult,
    \* decode_*_into: which of them, the bytes of the source and the read at
    \* which the source fails, the bytes consumed, the reads made, the
    \* destination, the position and the returned Result
    bulkKind, bulkSource, bulkFailAt, bulkPos, bulkReads, bulkDst, bulkPc, bulkResult

jsonVars == <<doc, pc, vr, values, inline_binary, result>>
tagVars == <<tag, tagText, tagParsed, tagPc>>
regVars == <<registry, submissions, frozen, query, found>>
valVars == <<elemValue, elemVr, elemLen, written, valPc>>
objVars == <<objDoc, obj, objPc, objErr>>
pixVars == <<pixObj, pixPc, pixCall, pixData, pixResult>>
hdrVars == <<hdrSource, hdrPos, hdrPc, hdrTag, hdrVr, hdrResult>>
bulkVars == <<bulkKind, bulkSource, bulkFailAt, bulkPos, bulkReads, bulkDst, bulkPc, bulkResult>>
vars == <<jsonVars, tagVars, regVars, valVars, objVars, pixVars, hdrVars, bulkVars>>

\* the variables of the other parts
exceptJson == <<tagVars, regVars, valVars, objVars, pixVars, hdrVars, bulkVars>>
exceptTag == <<jsonVars, regVars, valVars, objVars, pixVars, hdrVars, bulkVars>>
exceptReg == <<jsonVars, tagVars, valVars, objVars, pixVars, hdrVars, bulkVars>>
exceptVal == <<jsonVars, tagVars, regVars, objVars, pixVars, hdrVars, bulkVars>>
exceptObj == <<jsonVars, tagVars, regVars, valVars, pixVars, hdrVars, bulkVars>>
exceptPix == <<jsonVars, tagVars, regVars, valVars, objVars, hdrVars, bulkVars>>
exceptHdr == <<jsonVars, tagVars, regVars, valVars, objVars, pixVars, bulkVars>>
exceptBulk == <<jsonVars, tagVars, regVars, valVars, objVars, pixVars, hdrVars>>

----------------------------------------------------------------------------
(* Bounds of the model *)

\* the most keys one data element object is given
MaxKeys == 3
\* the most transfer syntaxes external modules submit
MaxSubmissions == 3
\* the most entries one data set map is given
MaxEntries == 3
\* the most fragments of an encapsulated Pixel Data element
MaxFragments == 2
\* the most attributes of one object whose read fails
MaxFailing == 2
MaxValueBytes == 1
MaxDst == 2

----------------------------------------------------------------------------
(* Option and Result *)

None == [some |-> FALSE]
Some(x) == [some |-> TRUE, val |-> x]

Ok(x) == [res |-> "Ok", val |-> x]
Err(m) == [res |-> "Err", msg |-> m]
Panic(m) == [res |-> "Panic", msg |-> m]
IsOk(r) == r.res = "Ok"
IsErr(r) == r.res = "Err"

----------------------------------------------------------------------------
(* JSON documents: a string, a number, an array or an object (a sequence   *)
(* of <<key, value>> entries in document order)                            *)

JStr(s) == [kind |-> "string", v |-> s]
JNum(n) == [kind |-> "number", v |-> n]
JArr(items) == [kind |-> "array", v |-> items]
JObj(entries) == [kind |-> "object", v |-> entries]

\* one character of a string
CharAt(s, i) == SubSeq(s, i, i)

----------------------------------------------------------------------------
(* VR: the closed enumeration, and VR::from_str *)

VRs ==
    {"AE", "AS", "AT", "CS", "DA", "DS", "DT", "FL", "FD", "IS", "LO", "LT",
     "OB", "OD", "OF", "OL", "OV", "OW", "PN", "SH", "SL", "SQ", "SS", "ST",
     "SV", "TM", "UC", "UI", "UL", "UN", "UR", "US", "UT", "UV"}

\* VR::from_str: the 2-letter code of a VR, or an error
VR_from_str(s) == IF s \in VRs THEN Ok(s) ELSE Err("no such value representation")

----------------------------------------------------------------------------
(* Numbers and text *)

Digits == "0123456789"
IsDigit(c) == \E i \in 1..10 : CharAt(Digits, i) = c
DigitVal(c) == (CHOOSE i \in 1..10 : CharAt(Digits, i) = c) - 1

RECURSIVE DigitsValue(_)
\* the value of a non-empty string of decimal digits
DigitsValue(s) ==
    IF Len(s) = 0 THEN 0
    ELSE 10 * DigitsValue(SubSeq(s, 1, Len(s) - 1)) + DigitVal(CharAt(s, Len(s)))

AllDigits(s) == Len(s) > 0 /\ \A i \in 1..Len(s) : IsDigit(CharAt(s, i))

\* The integer types. The numbers of the model are within the 32-bit signed
\* integers, so every number fits i32 and i64, and u32 and u64 only ask for a
\* number that is not negative.
IsSigned(ty) == ty \in {"i16", "i32", "i64"}
InType(ty, n) ==
    CASE ty = "u8" -> 0 <= n /\ n <= 2^8 - 1
      [] ty = "u16" -> 0 <= n /\ n <= 2^16 - 1
      [] ty = "i16" -> -(2^15) <= n /\ n <= 2^15 - 1
      [] ty \in {"u32", "u64"} -> 0 <= n
      [] ty \in {"i32", "i64"} -> TRUE

\* str::parse::<integer>: an optional sign (no "-" for an unsigned type), then
\* decimal digits, within the range of the type
ParseInt(ty, s) ==
    LET signed == Len(s) > 0 /\ CharAt(s, 1) \in {"+", "-"}
        neg == Len(s) > 0 /\ CharAt(s, 1) = "-"
        body == IF signed THEN SubSeq(s, 2, Len(s)) ELSE s
    IN  IF ~AllDigits(body) \/ (neg /\ ~IsSigned(ty))
        THEN Err("invalid digit found in string")
        ELSE LET n == IF neg THEN -DigitsValue(body) ELSE DigitsValue(body)
             IN  IF InType(ty, n) THEN Ok(n)
                 ELSE Err("number too large to fit in target type")

RECURSIVE NatToString(_)
NatToString(n) ==
    IF n < 10 THEN CharAt(Digits, n + 1)
    ELSE NatToString(n \div 10) \o CharAt(Digits, (n % 10) + 1)

\* the place of the first c in s, or 0
IndexOf(s, c) ==
    IF \E i \in 1..Len(s) : CharAt(s, i) = c
    THEN CHOOSE i \in 1..Len(s) : CharAt(s, i) = c /\ \A k \in 1..(i - 1) : CharAt(s, k) # c
    ELSE 0

\* the number that serde_json makes of a JSON number literal written with a
\* fraction or an exponent. The literals of the model have integral values:
\* digits "." zeros, or digits "e" digits
JsonFloatValue(text) ==
    IF IndexOf(text, "e") > 0
    THEN DigitsValue(SubSeq(text, 1, IndexOf(text, "e") - 1))
            * 10 ^ DigitsValue(SubSeq(text, IndexOf(text, "e") + 1, Len(text)))
    ELSE DigitsValue(SubSeq(text, 1, IndexOf(text, ".") - 1))

\* a number written with a fraction or an exponent: `text` is the literal of
\* the document, `v` the number that the JSON parser makes of it
JFloat(text) == [kind |-> "float", text |-> text, v |-> JsonFloatValue(text)]

\* integer Display
IntToString(n) == IF n < 0 THEN "-" \o NatToString(-n) ELSE NatToString(n)

\* a floating point number: an integral number, or one of the special values
Float(n) == [f |-> "num", n |-> n]
NaN == [f |-> "NaN"]
Infinity == [f |-> "inf"]
NegInfinity == [f |-> "-inf"]

\* str::parse::<f32/f64>
ParseFloat(s) ==
    CASE s \in {"NaN", "nan"} -> Ok(NaN)
      [] s \in {"Infinity", "infinity", "inf", "+Infinity", "+inf"} -> Ok(Infinity)
      [] s \in {"-Infinity", "-infinity", "-inf"} -> Ok(NegInfinity)
      [] OTHER ->
            LET p == ParseInt("i64", s)
            IN  IF IsOk(p) THEN Ok(Float(p.val)) ELSE Err("invalid float literal")

\* f64 Display
FloatToString(x) ==
    CASE x.f = "NaN" -> "NaN"
      [] x.f = "inf" -> "inf"
      [] x.f = "-inf" -> "-inf"
      [] OTHER -> IntToString(x.n)

----------------------------------------------------------------------------
(* Base64, the STANDARD engine: the alphabet A-Z a-z 0-9 + /, padded with   *)
(* "=" to a multiple of 4 characters, no bits left over                     *)

Base64Alphabet == "ABCDEFGHIJKLMNOPQRSTUVWXYZabcdefghijklmnopqrstuvwxyz0123456789+/"
IsBase64Char(c) == \E i \in 1..64 : CharAt(Base64Alphabet, i) = c
Base64Val(c) == (CHOOSE i \in 1..64 : CharAt(Base64Alphabet, i) = c) - 1

\* the bytes of one group of 4 characters, n of them significant (2, 3 or 4)
Base64Group(g, n) ==
    LET a == Base64Val(CharAt(g, 1))
        b == Base64Val(CharAt(g, 2))
        c == IF n >= 3 THEN Base64Val(CharAt(g, 3)) ELSE 0
        d == IF n >= 4 THEN Base64Val(CharAt(g, 4)) ELSE 0
        bytes == << a * 4 + b \div 16, (b % 16) * 16 + c \div 4, (c % 4) * 64 + d >>
    IN  SubSeq(bytes, 1, n - 1)

\* the bits of the last significant character that no byte takes
Base64Rest(g, n) ==
    CASE n = 2 -> Base64Val(CharAt(g, 2)) % 16
      [] n = 3 -> Base64Val(CharAt(g, 3)) % 4
      [] OTHER -> 0

RECURSIVE Base64Decode(_)
\* general_purpose::STANDARD.decode
Base64Decode(s) ==
    IF Len(s) = 0 THEN Ok(<< >>)
    ELSE IF Len(s) % 4 # 0 THEN Err("invalid length")
    ELSE LET g == SubSeq(s, 1, 4)
             rest == SubSeq(s, 5, Len(s))
             last == Len(rest) = 0
             n == IF last /\ CharAt(g, 4) = "="
                  THEN (IF CharAt(g, 3) = "=" THEN 2 ELSE 3)
                  ELSE 4
         IN  IF \E i \in 1..n : ~IsBase64Char(CharAt(g, i))
             THEN Err("invalid byte")
             ELSE IF Base64Rest(g, n) # 0 THEN Err("invalid last symbol")
             ELSE LET tail == Base64Decode(rest)
                  IN  IF IsOk(tail) THEN Ok(Base64Group(g, n) \o tail.val) ELSE tail

----------------------------------------------------------------------------
(* Tag: the pair (group, element) of 16-bit numbers, its 8-hex-digit form   *)

Tag(g, e) == << g, e >>

HexDigits == "0123456789ABCDEF"
HexLower == "0123456789abcdef"
IsHexDigit(c) == \E i \in 1..16 : CharAt(HexDigits, i) = c \/ CharAt(HexLower, i) = c
HexVal(c) == (CHOOSE i \in 1..16 : CharAt(HexDigits, i) = c \/ CharAt(HexLower, i) = c) - 1

\* format!("{:04X}", n) of a 16-bit number
FormatHex4(n) ==
    CharAt(HexDigits, ((n \div 4096) % 16) + 1) \o CharAt(HexDigits, ((n \div 256) % 16) + 1)
        \o CharAt(HexDigits, ((n \div 16) % 16) + 1) \o CharAt(HexDigits, (n % 16) + 1)

\* format!("{:04X}{:04X}", t.group(), t.element())
FormatTag(t) == FormatHex4(t[1]) \o FormatHex4(t[2])

\* u16::from_str_radix(s, 16) of 4 hex digits
ParseHex4(s) ==
    HexVal(CharAt(s, 1)) * 4096 + HexVal(CharAt(s, 2)) * 256
        + HexVal(CharAt(s, 3)) * 16 + HexVal(CharAt(s, 4))

\* Tag::from_str of the form GGGGEEEE
Tag_from_str(s) ==
    IF Len(s) # 8 THEN Err("unexpected length")
    ELSE IF \E i \in 1..8 : ~IsHexDigit(CharAt(s, i)) THEN Err("invalid digit")
    ELSE Ok(Tag(ParseHex4(SubSeq(s, 1, 4)), ParseHex4(SubSeq(s, 5, 8))))

\* visit_str that takes the element for the group and the group for the element
TagVisitor_visit_str_Swapped(v) ==
    IF IsOk(Tag_from_str(v)) THEN Ok(Tag(Tag_from_str(v).val[2], Tag_from_str(v).val[1]))
    ELSE Tag_from_str(v)

\* TagVisitor::visit_str
TagVisitor_visit_str(v) == Tag_from_str(v)

\* Deserialize for DicomJson<Tag>: a JSON string, handed to the TagVisitor
DicomJsonTag_deserialize(j) ==
    IF j.kind # "string" THEN Err("invalid type: expected a DICOM tag string")
    ELSE TagVisitor_visit_str(j.v)

----------------------------------------------------------------------------
(* Values *)

Empty == [pv |-> "Empty"]
Str(s) == [pv |-> "Str", s |-> s]
Prim(variant, vals) == [pv |-> variant, vals |-> vals]

Primitive(p) == [variant |-> "Primitive", prim |-> p]
Sequence(items) == [variant |-> "Sequence", items |-> items]

\* characters that take two bytes in UTF-8; every other character of the
\* model is ASCII
TwoByteChars == {"õ", "ã", "é"}
Utf8Width(c) == IF c \in TwoByteChars THEN 2 ELSE 1

RECURSIVE Utf8Len(_)
\* str::len: the number of bytes of the UTF-8 form
Utf8Len(s) ==
    IF Len(s) = 0 THEN 0 ELSE Utf8Width(CharAt(s, 1)) + Utf8Len(SubSeq(s, 2, Len(s)))

RECURSIVE SumLen(_)
SumLen(strs) == IF Len(strs) = 0 THEN 0 ELSE Utf8Len(Head(strs)) + SumLen(Tail(strs))

EvenPadded(n) == n + (n % 2)

\* the Str arm counting characters, not bytes
StrByteLength_Chars(s) == Len(s)

\* the Str arm of calculate_byte_length
StrByteLength(s) == Utf8Len(s)

\* PrimitiveValue::calculate_byte_length
calculate_byte_length(p) ==
    CASE p.pv = "Empty" -> 0
      [] p.pv = "Str" -> StrByteLength(p.s)
      [] p.pv = "Strs" ->
            IF Len(p.vals) = 0 THEN 0
            ELSE EvenPadded(SumLen(p.vals) + Len(p.vals) - 1)
      [] p.pv = "U8" -> EvenPadded(Len(p.vals))
      [] p.pv \in {"I16", "U16"} -> 2 * Len(p.vals)
      [] p.pv \in {"I32", "U32", "F32", "Tags"} -> 4 * Len(p.vals)
      [] p.pv \in {"I64", "U64", "F64"} -> 8 * Len(p.vals)

\* Length: a defined number of bytes, or undefined
Defined(n) == [defined |-> TRUE, n |-> n]
Undefined == [defined |-> FALSE]

\* HasLength for Value
Value_length(v) ==
    IF v.variant = "Primitive" THEN Defined(calculate_byte_length(v.prim))
    ELSE Undefined

\* DataElement::new
DataElement_new(t, r, v) == [tag |-> t, vr |-> r, len |-> Value_length(v), value |-> v]

\* PartialEq of PrimitiveValue: a Str equals the Strs of that one string
PrimitiveValue_eq(a, b) ==
    CASE a.pv = "Str" /\ b.pv = "Strs" -> b.vals = << a.s >>
      [] a.pv = "Strs" /\ b.pv = "Str" -> a.vals = << b.s >>
      [] OTHER -> a = b

\* PartialEq of Value
Value_eq(a, b) ==
    IF a.variant = "Primitive" /\ b.variant = "Primitive" THEN PrimitiveValue_eq(a.prim, b.prim)
    ELSE a = b

\* PartialEq of DataElement: the header (tag, VR, length) and the value
DataElement_eq(a, b) ==
    a.tag = b.tag /\ a.vr = b.vr /\ a.len = b.len /\ Value_eq(a.value, b.value)

\* InMemDicomObject: a map from tags to elements
new_empty_with_dict == << >>
put(o, e) == [t \in DOMAIN o \cup {e.tag} |-> IF t = e.tag THEN e ELSE o[t]]

\* InMemDicomObject::get
element_get(o, t) == IF t \in DOMAIN o THEN Some(o[t]) ELSE None

\* Ord of Tag: by group, then by element
TagLess(a, b) == a[1] < b[1] \/ (a[1] = b[1] /\ a[2] < b[2])
LeastTag(tags) == CHOOSE t \in tags : \A u \in tags : u = t \/ TagLess(t, u)

RECURSIVE TagsInOrder(_)
TagsFrom(tags, t) == << t >> \o TagsInOrder(tags \ {t})
TagsInOrder(tags) == IF tags = {} THEN << >> ELSE TagsFrom(tags, LeastTag(tags))

\* the iteration over an InMemDicomObject: its elements in ascending tag order
iter(o) == [i \in 1..Len(TagsInOrder(DOMAIN o)) |-> o[TagsInOrder(DOMAIN o)[i]]]

----------------------------------------------------------------------------
(* Typed deserialization of the members of a JSON "Value" array *)

RECURSIVE DeObject(_)

\* String
DeString(j) == IF j.kind = "string" THEN Ok(j.v) ELSE Err("invalid type: expected a string")

\* i16, u16, i32, u8
DeInt(ty, j) ==
    IF j.kind # "number" THEN Err("invalid type: expected a number")
    ELSE IF ~InType(ty, j.v) THEN Err("invalid value: out of range")
    ELSE Ok(j.v)

\* NumberOrText<T>: a number of type T, or any string
Number(n) == [nt |-> "Number", num |-> n]
Text(s) == [nt |-> "Text", s |-> s]
IsFloatType(ty) == ty \in {"f32", "f64"}
DeNumberOrText(ty, j) ==
    CASE j.kind \in {"number", "float"} /\ IsFloatType(ty) -> Ok(Number(Float(j.v)))
      [] j.kind = "number" /\ ~IsFloatType(ty) /\ InType(ty, j.v) -> Ok(Number(j.v))
      [] j.kind = "string" -> Ok(Text(j.v))
      [] OTHER -> Err("data did not match any variant of untagged enum NumberOrText")

\* NumberOrText::to_num
to_num(ty, v) ==
    IF v.nt = "Number" THEN Ok(v.num)
    ELSE IF IsFloatType(ty) THEN ParseFloat(v.s) ELSE ParseInt(ty, v.s)

\* NumberOrText<f64>::to_string
to_string(v) == IF v.nt = "Number" THEN FloatToString(v.num) ELSE v.s

\* the value of the first entry of a JSON object with the key k
Field(entries, k) ==
    LET at == {i \in 1..Len(entries) : entries[i][1] = k}
    IN  IF at = {} THEN None ELSE Some(entries[CHOOSE i \in at : \A n \in at : i <= n][2])

\* DicomJsonPerson: an object whose Alphabetic, Ideographic and Phonetic
\* members, where present, are strings
PersonFields == << "Alphabetic", "Ideographic", "Phonetic" >>
DePerson(j) ==
    IF j.kind # "object" THEN Err("invalid type: expected a person name object")
    ELSE IF \E i \in 1..3 : LET f == Field(j.v, PersonFields[i])
                            IN  f.some /\ f.val.kind # "string"
    THEN Err("invalid type: expected a string")
    ELSE Ok([i \in 1..3 |-> LET f == Field(j.v, PersonFields[i])
                            IN  IF f.some THEN Some(f.val.v) ELSE None])

OrEmpty(o) == IF o.some THEN o.val ELSE ""

\* DicomJsonPerson::to_string: the component groups joined by "=", the unused
\* groups at the end left out
Person_to_string(p) ==
    CASE p[3].some -> OrEmpty(p[1]) \o "=" \o OrEmpty(p[2]) \o "=" \o p[3].val
      [] ~p[3].some /\ p[2].some -> OrEmpty(p[1]) \o "=" \o p[2].val
      [] OTHER -> OrEmpty(p[1])

\* the types T of `let items: Vec<T> = map.next_value()?`
IntTypes == {"i16", "u16", "i32", "u8"}
NumberOrTextTypes == {"f32", "f64", "i64", "u32", "u64"}

\* one member of the array as a T
DeItem(ty, j) ==
    CASE ty = "String" -> DeString(j)
      [] ty \in IntTypes -> DeInt(ty, j)
      [] ty \in NumberOrTextTypes -> DeNumberOrText(ty, j)
      [] ty = "DicomJsonPerson" -> DePerson(j)
      [] ty = "DicomJson<Tag>" -> DicomJsonTag_deserialize(j)
      [] ty = "DicomJson<InMemDicomObject>" -> DeObject(j)

\* the least member of a non-empty set of numbers
Least(set) == CHOOSE i \in set : \A k \in set : i <= k

\* the values of a sequence of results, or the first error among them
AllOrFirstErr(rs) ==
    IF \E i \in 1..Len(rs) : ~IsOk(rs[i])
    THEN rs[Least({i \in 1..Len(rs) : ~IsOk(rs[i])})]
    ELSE Ok([i \in 1..Len(rs) |-> rs[i].val])

\* Vec<T>: a JSON array every member of which deserializes as T; the error is
\* that of the first member that does not
DeVec(ty, j) ==
    IF j.kind # "array" THEN Err("invalid type: expected a sequence")
    ELSE AllOrFirstErr([i \in 1..Len(j.v) |-> DeItem(ty, j.v[i])])

\* `items.into_iter().map(|v| v.to_num()).collect::<Result<C<T>, _>>()`
AllToNum(ty, items) == AllOrFirstErr([i \in 1..Len(items) |-> to_num(ty, items[i])])

----------------------------------------------------------------------------
(* DataElementVisitor::visit_map, one step at a time *)

\* ReadVR with another fallback than UN
ReadVR_FallbackOB(val) == IF val \in VRs THEN val ELSE "OB"

\* `let val: String = map.next_value()?; let vr = VR::from_str(&val).unwrap_or(VR::UN)`
ReadVR(val) ==
    LET parsed == VR_from_str(val)
    IN  IF IsOk(parsed) THEN parsed.val ELSE "UN"

\* the text VRs of the "always text" arm
TextVRs ==
    {"AE", "AS", "CS", "DA", "DT", "LO", "LT", "SH", "ST", "UT", "UR", "TM", "UC", "UI"}

\* the type T of `let items: Vec<T> = map.next_value()?` in the arm of each VR
ItemType(r) ==
    CASE r = "SQ" -> "DicomJson<InMemDicomObject>"
      [] r \in TextVRs -> "String"
      [] r = "SS" -> "i16"
      [] r \in {"US", "OW"} -> "u16"
      [] r = "SL" -> "i32"
      [] r = "OB" -> "u8"
      [] r \in {"FL", "OF"} -> "f32"
      [] r \in {"FD", "OD"} -> "f64"
      [] r = "SV" -> "i64"
      [] r \in {"UL", "OL"} -> "u32"
      [] r \in {"UV", "OV"} -> "u64"
      [] r \in {"DS", "IS"} -> "f64"
      [] r = "PN" -> "DicomJsonPerson"
      [] r = "AT" -> "DicomJson<Tag>"

\* the variant of PrimitiveValue that the arm of each VR builds
VariantOf(r) ==
    CASE r \in TextVRs -> "Strs"
      [] r = "SS" -> "I16"
      [] r \in {"US", "OW"} -> "U16"
      [] r = "SL" -> "I32"
      [] r = "OB" -> "U8"
      [] r \in {"FL", "OF"} -> "F32"
      [] r \in {"FD", "OD"} -> "F64"
      [] r = "SV" -> "I64"
      [] r \in {"UL", "OL"} -> "U32"
      [] r \in {"UV", "OV"} -> "U64"
      [] r \in {"DS", "IS", "PN"} -> "Strs"
      [] r = "AT" -> "Tags"

\* what the arm of each VR does with the members: to_num of each, to_string
\* of each, or nothing
Collect(r, items) ==
    CASE r \in {"FL", "OF", "FD", "OD", "SV", "UL", "OL", "UV", "OV"} ->
            AllToNum(ItemType(r), items)
      [] r \in {"DS", "IS"} -> Ok([i \in 1..Len(items) |-> to_string(items[i])])
      [] r = "PN" -> Ok([i \in 1..Len(items) |-> Person_to_string(items[i])])
      [] OTHER -> Ok(items)

\* `match vr { ... }` of the "Value" key: the value of the element, or the error
\* `values = Some(...)`: a Sequence in the SQ arm, a primitive value in the others
IntoValue(r, collected) ==
    IF ~IsOk(collected) THEN collected
    ELSE IF r = "SQ" THEN Ok(Sequence(collected.val))
    ELSE Ok(Primitive(Prim(VariantOf(r), collected.val)))

\* the arm of a VR, given the outcome of `map.next_value()?`
ArmOf(r, items) == IF ~IsOk(items) THEN items ELSE IntoValue(r, Collect(r, items.val))

\* ValueForVr with the UN arm reading bytes, as the OB arm does
ValueForVr_UNAsBytes(r, j) ==
    IF r = "UN" THEN ArmOf("OB", DeVec("u8", j)) ELSE ArmOf(r, DeVec(ItemType(r), j))

\* `match vr { ... }` of the "Value" key: the value of the element, or the error
ValueForVr(r, j) ==
    IF r = "UN" THEN Err("can't parse JSON Value in UN")
    ELSE ArmOf(r, DeVec(ItemType(r), j))

\* the locals of visit_map
Locals(r, v, b) == [vr |-> r, values |-> v, inline_binary |-> b]

\* VisitFirst without the check of the key
VisitFirst_AnyKey(e) ==
    IF e[2].kind # "string" THEN Err("invalid type: expected a string")
    ELSE Ok(Locals(ReadVR(e[2].v), None, None))

\* the first key and its value: `"vr"` and a string
VisitFirst(e) ==
    IF e[1] # "vr" THEN Err("expected \"vr\" to be the first field")
    ELSE IF e[2].kind # "string" THEN Err("invalid type: expected a string")
    ELSE Ok(Locals(ReadVR(e[2].v), None, None))

\* `values = Some(..)`, unless the arm returned an error
SetValues(st, v) == IF IsOk(v) THEN Ok(Locals(st.vr, Some(v.val), st.inline_binary)) ELSE v

\* the "Value" arm of the key loop
VisitValue(st, j) ==
    IF st.inline_binary.some THEN Err("\"Value\" conflicts with \"InlineBinary\"")
    ELSE SetValues(st, ValueForVr(st.vr, j))

\* VisitInlineBinary without the check of `values`
VisitInlineBinary_NoConflict(st, j) ==
    IF j.kind # "string" THEN Err("invalid type: expected a string")
    ELSE Ok(Locals(st.vr, st.values, Some(j.v)))

\* the "InlineBinary" arm of the key loop
VisitInlineBinary(st, j) ==
    IF st.values.some THEN Err("\"InlineBinary\" conflicts with \"Value\"")
    ELSE IF j.kind # "string" THEN Err("invalid type: expected a string")
    ELSE Ok(Locals(st.vr, st.values, Some(j.v)))

\* the key loop passing over the keys it does not know
VisitKey_SkipUnknown(st, e) ==
    CASE e[1] = "vr" -> Err("\"vr\" should only be set once")
      [] e[1] = "Value" -> VisitValue(st, e[2])
      [] e[1] = "InlineBinary" -> VisitInlineBinary(st, e[2])
      [] OTHER -> Ok(st)

\* one turn of `while let Some(key) = map.next_key()?`
VisitKey(st, e) ==
    CASE e[1] = "vr" -> Err("\"vr\" should only be set once")
      [] e[1] = "Value" -> VisitValue(st, e[2])
      [] e[1] = "InlineBinary" -> VisitInlineBinary(st, e[2])
      [] OTHER -> Err("Unrecognized data element field")

\* `PrimitiveValue::from(data).into()` of the decoded bytes, or the error
FromBase64(r, data) ==
    IF IsOk(data) THEN Ok([vr |-> r, value |-> Primitive(Prim("U8", data.val))])
    ELSE Err("inline binary data is not valid base64")

\* `match (values, inline_binary)` after the loop
VisitEnd(st) ==
    CASE ~st.values.some /\ ~st.inline_binary.some ->
            Ok([vr |-> st.vr, value |-> Primitive(Empty)])
      [] ~st.values.some /\ st.inline_binary.some ->
            FromBase64(st.vr, Base64Decode(st.inline_binary.val))
      [] st.values.some /\ ~st.inline_binary.some ->
            Ok([vr |-> st.vr, value |-> st.values.val])
      [] st.values.some /\ st.inline_binary.some -> Panic("unreachable")

RECURSIVE VisitLoop(_, _, _)
\* the loop goes on with the locals of the last turn, or returns its error
LoopFrom(r, entries, i) == IF IsOk(r) THEN VisitLoop(r.val, entries, i) ELSE r

\* the key loop from entry i on, then the end
VisitLoop(st, entries, i) ==
    IF i > Len(entries) THEN VisitEnd(st)
    ELSE LoopFrom(VisitKey(st, entries[i]), entries, i + 1)

\* DataElementVisitor::visit_map on a whole object
DataElementVisitor_visit_map(entries) ==
    IF Len(entries) = 0 THEN Err("\"vr\" is not set")
    ELSE LoopFrom(VisitFirst(entries[1]), entries, 2)

\* Deserialize for JsonDataElement
JsonDataElement_deserialize(j) ==
    IF j.kind # "object" THEN Err("invalid type: expected a data element object")
    ELSE DataElementVisitor_visit_map(j.v)

RECURSIVE ObjectLoop(_, _, _)
\* `map.next_entry::<DicomJson<Tag>, JsonDataElement<D>>()?`, then
\* `obj.put(DataElement::new(tag, vr, value))` and the next turn
PutEntry(o, t, e, entries, i) ==
    IF ~IsOk(t) THEN t
    ELSE IF ~IsOk(e) THEN e
    ELSE ObjectLoop(put(o, DataElement_new(t.val, e.val.vr, e.val.value)), entries, i + 1)

\* `while let Some(e) = map.next_entry()? { ... }` from entry i on
ObjectLoop(o, entries, i) ==
    IF i > Len(entries) THEN Ok(o)
    ELSE PutEntry(o, DicomJsonTag_deserialize(JStr(entries[i][1])),
                  JsonDataElement_deserialize(entries[i][2]), entries, i)

\* InMemDicomObjectVisitor::visit_map
InMemDicomObjectVisitor_visit_map(entries) == ObjectLoop(new_empty_with_dict, entries, 1)

\* Deserialize for DicomJson<InMemDicomObject>
DeObject(j) ==
    IF j.kind # "object" THEN Err("invalid type: expected a DICOM data set map")
    ELSE InMemDicomObjectVisitor_visit_map(j.v)

----------------------------------------------------------------------------
(* The documents the deserializer is given *)

\* the strings given as "vr": every VR code, and strings that are none
VrStrings == VRs \cup {"XX", "un", ""}

PersonObject == JObj(<< << "Alphabetic", JStr("^Bob^^Dr.") >> >>)
NestedObject ==
    JObj(<< << "00080005",
               JObj(<< << "vr", JStr("CS") >>, << "Value", JArr(<< JStr("ISO_IR 192") >>) >> >>) >> >>)

\* the JSON values given under "Value"
ValueInputs ==
    { JArr(<< >>),
      JArr(<< JStr("ISO_IR 192") >>),
      JArr(<< JStr("CT"), JStr("PET") >>),
      JArr(<< JStr("30Y") >>),
      JArr(<< JNum(1) >>),
      JArr(<< JNum(-1), JNum(40000) >>),
      JArr(<< JStr("NaN"), JNum(2) >>),
      JArr(<< JStr("1.50"), JNum(10), JFloat("1.0"), JFloat("1e2") >>),
      JArr(<< JStr("00080010") >>),
      JArr(<< PersonObject >>),
      JArr(<< JObj(<< >>), NestedObject >>),
      JStr("CT") }

\* the JSON values given under "InlineBinary"
InlineBinaryInputs == { JStr("z0x9c8v7"), JStr("AQ=="), JStr("AQ="), JNum(1) }

Entries ==
    {<< "vr", JStr(s) >> : s \in VrStrings} \cup {<< "vr", JNum(1) >>}
        \cup {<< "Value", v >> : v \in ValueInputs}
        \cup {<< "InlineBinary", v >> : v \in InlineBinaryInputs}
        \cup {<< "BulkDataURI", JStr("http://host/bulk") >>, << "InlineData", JStr("AQ==") >>}

----------------------------------------------------------------------------
(* The deserializer of a data element as a state machine: the map access    *)
(* hands out one entry at a time, or says that the object has ended         *)

\* the locals are not yet bound
Unset == "unset"

JsonIdle ==
    /\ doc = << >>
    /\ pc = "start"
    /\ vr = Unset
    /\ values = None
    /\ inline_binary = None
    /\ result = None

\* the outcome of a step: go on in the loop with the locals, or return
Continue(st) ==
    /\ pc' = "loop"
    /\ vr' = st.vr
    /\ values' = st.values
    /\ inline_binary' = st.inline_binary
    /\ result' = result

Return(r) ==
    /\ pc' = CASE r.res = "Ok" -> "done" [] r.res = "Err" -> "err" [] OTHER -> "panic"
    /\ result' = Some(r)
    /\ UNCHANGED << vr, values, inline_binary >>

\* `?` and `return`: the loop goes on, or visit_map returns
Step(r) == IF IsOk(r) THEN Continue(r.val) ELSE Return(r)

\* `map.next_key()?` is None at once: the object has no keys
NoKeys ==
    /\ pc = "start"
    /\ Return(DataElementVisitor_visit_map(doc))
    /\ UNCHANGED doc

\* the first key, and the value of "vr"
FirstKey ==
    /\ pc = "start"
    /\ \E e \in Entries :
        /\ doc' = << e >>
        /\ Step(VisitFirst(e))

\* one more key of the loop, and its value
NextKey ==
    /\ pc = "loop"
    /\ Len(doc) < MaxKeys
    /\ \E e \in Entries :
        /\ doc' = Append(doc, e)
        /\ Step(VisitKey(Locals(vr, values, inline_binary), e))

\* `map.next_key()?` is None: the loop ends and the element is built
EndOfKeys ==
    /\ pc = "loop"
    /\ Return(VisitEnd(Locals(vr, values, inline_binary)))
    /\ UNCHANGED doc

----------------------------------------------------------------------------
(* Formatting a tag and parsing it back *)

TagNumbers == {0, 8, 9, 16, 19, 32, 171, 4098, 32736, 43981, 65534, 65535}
TagInputs == {Tag(g, e) : g \in TagNumbers, e \in TagNumbers}

TagIdle ==
    /\ tag = Tag(0, 0)
    /\ tagText = ""
    /\ tagParsed = None
    /\ tagPc = "idle"

TagInit ==
    /\ tag \in TagInputs
    /\ tagText = ""
    /\ tagParsed = None
    /\ tagPc = "new"

\* the tag is written as the key of a JSON object
WriteTag ==
    /\ tagPc = "new"
    /\ tagText' = FormatTag(tag)
    /\ tagPc' = "written"
    /\ UNCHANGED << tag, tagParsed >>

\* from_str::<Tag> of the JSON string
ReadTag ==
    /\ tagPc = "written"
    /\ tagParsed' = Some(DicomJsonTag_deserialize(JStr(tagText)))
    /\ tagPc' = "read"
    /\ UNCHANGED << tag, tagText >>

----------------------------------------------------------------------------
(* The transfer syntax registry *)

\* stands for the NUL character, which a string of this language cannot hold
NUL == "~"

TransferSyntax(uid, name, byte_order, vr_encoding, codec) ==
    [uid |-> uid, name |-> name, byte_order |-> byte_order,
     vr_encoding |-> vr_encoding, codec |-> codec]

\* TransferSyntax::fully_supported: the data set and the pixel data can be read
fully_supported(ts) == ts.codec \in {"None", "Dataset", "PixelAdapter"}

\* TransferSyntax::unsupported_pixel_encapsulation
unsupported_pixel_encapsulation(ts) == ts.codec \in {"EncapsulatedPixelData", "Unsupported"}

\* TransferSyntax::decoder: the header codec of the byte order and VR encoding
decoder(ts) ==
    CASE ts.byte_order = "LE" /\ ts.vr_encoding = "Implicit" -> Some("ImplicitVRLittleEndian")
      [] ts.byte_order = "LE" /\ ts.vr_encoding = "Explicit" -> Some("ExplicitVRLittleEndian")
      [] ts.byte_order = "BE" /\ ts.vr_encoding = "Explicit" -> Some("ExplicitVRBigEndian")
      [] OTHER -> None

\* the built-in transfer syntaxes
BuiltIn ==
    { TransferSyntax("1.2.840.10008.1.2", "Implicit VR Little Endian", "LE", "Implicit", "None"),
      TransferSyntax("1.2.840.10008.1.2.1", "Explicit VR Little Endian", "LE", "Explicit", "None"),
      TransferSyntax("1.2.840.10008.1.2.2", "Explicit VR Big Endian", "BE", "Explicit", "None"),
      TransferSyntax("1.2.840.10008.1.2.4.50", "JPEG Baseline (Process 1)", "LE", "Explicit",
                     "EncapsulatedPixelData"),
      TransferSyntax("1.2.840.10008.1.2.5", "RLE Lossless", "LE", "Explicit",
                     "EncapsulatedPixelData") }

\* a registry: a map from UIDs to descriptors
RegistryOf(set) == [u \in {ts.uid : ts \in set} |-> CHOOSE ts \in set : ts.uid = u]

\* register where the last descriptor of a UID wins
register_LastWins(reg, ts) ==
    [u \in DOMAIN reg \cup {ts.uid} |-> IF u = ts.uid THEN ts ELSE reg[u]]

\* register: a descriptor whose UID is taken is ignored
register(reg, ts) ==
    IF ts.uid \in DOMAIN reg THEN reg
    ELSE [u \in DOMAIN reg \cup {ts.uid} |-> IF u = ts.uid THEN ts ELSE reg[u]]

\* a lookup key that keeps the padding
TrimPadding_Kept(uid) == uid

\* the lookup key: the UID without one trailing NUL
TrimPadding(uid) ==
    IF Len(uid) > 0 /\ CharAt(uid, Len(uid)) = NUL THEN SubSeq(uid, 1, Len(uid) - 1) ELSE uid

\* TransferSyntaxIndex::get
get(reg, uid) ==
    LET key == TrimPadding(uid)
    IN  IF key \in DOMAIN reg THEN Some(reg[key]) ELSE None

\* submit_ele_transfer_syntax!(uid, name, codec): explicit VR little endian
submit_ele_transfer_syntax(uid, name, codec) == TransferSyntax(uid, name, "LE", "Explicit", codec)

\* what external modules submit
SubmissionInputs ==
    { submit_ele_transfer_syntax("1.2.840.10008.1.999.9999.99999", "Dummy Little Endian",
                                 "EncapsulatedPixelData"),
      submit_ele_transfer_syntax("1.2.840.10008.1.999.9999.99999.2",
                                 "Always Dummy Lossless Little Endian", "EncapsulatedPixelData"),
      submit_ele_transfer_syntax("1.2.840.10008.1.999.9999.99999.3",
                                 "Forever Dummy Hierarchical Little Endian",
                                 "EncapsulatedPixelData"),
      submit_ele_transfer_syntax("1.2.840.10008.1.999.9999.99999", "Another Dummy", "None"),
      submit_ele_transfer_syntax("1.2.840.10008.1.2", "Not Implicit VR Little Endian",
                                 "EncapsulatedPixelData") }

\* the UIDs looked up: those of the descriptors, bare and padded, and others
KnownUids == {ts.uid : ts \in BuiltIn \cup SubmissionInputs}
QueryInputs ==
    KnownUids \cup {u \o NUL : u \in KnownUids}
        \cup {"1.2.840.10008.1.2" \o NUL \o NUL, "1.2.3.4", "", NUL}

RegIdle ==
    /\ registry = RegistryOf(BuiltIn)
    /\ submissions = << >>
    /\ frozen = FALSE
    /\ query = ""
    /\ found = None

\* an external module submits a descriptor during static initialization
Submit ==
    /\ ~frozen
    /\ Len(submissions) < MaxSubmissions
    /\ \E ts \in SubmissionInputs :
        /\ registry' = register(registry, ts)
        /\ submissions' = Append(submissions, ts)
    /\ UNCHANGED << frozen, query, found >>

\* main begins: the set is frozen
Freeze ==
    /\ ~frozen
    /\ frozen' = TRUE
    /\ UNCHANGED << registry, submissions, query, found >>

\* TransferSyntaxRegistry.get(uid)
Get ==
    /\ frozen
    /\ \E uid \in QueryInputs :
        /\ query' = uid
        /\ found' = Some(get(registry, uid))
    /\ UNCHANGED << registry, submissions, frozen >>

----------------------------------------------------------------------------
(* DataElement::new and the value bytes the encoder writes *)

RECURSIVE Utf8Bytes(_)
\* the bytes of a string: byte k of each character
Utf8Bytes(s) ==
    IF Len(s) = 0 THEN << >>
    ELSE [k \in 1..Utf8Width(CharAt(s, 1)) |-> << CharAt(s, 1), k >>]
            \o Utf8Bytes(SubSeq(s, 2, Len(s)))

RECURSIVE JoinBytes(_)
\* the values of a multi-valued text, separated by a backslash
JoinBytes(strs) ==
    IF Len(strs) = 0 THEN << >>
    ELSE IF Len(strs) = 1 THEN Utf8Bytes(strs[1])
    ELSE Utf8Bytes(strs[1]) \o << << "\\", 1 >> >> \o JoinBytes(Tail(strs))

RECURSIVE NumberBytes(_, _)
\* the bytes of numbers of `width` bytes each: byte k of each number
NumberBytes(nums, width) ==
    IF Len(nums) = 0 THEN << >>
    ELSE [k \in 1..width |-> << nums[1], k >>] \o NumberBytes(Tail(nums), width)

\* the value is padded to an even number of bytes
PadTo(bytes, pad) == IF Len(bytes) % 2 = 1 THEN Append(bytes, << pad, 1 >>) ELSE bytes

\* the padding of a text value: NUL for UI, a space for the other VRs
TextPad(r) == IF r = "UI" THEN NUL ELSE " "

\* the bytes the encoder writes for the value of an element
EncodeValue(p, r) ==
    CASE p.pv = "Empty" -> << >>
      [] p.pv = "Str" -> PadTo(Utf8Bytes(p.s), TextPad(r))
      [] p.pv = "Strs" -> PadTo(JoinBytes(p.vals), TextPad(r))
      [] p.pv = "U8" -> PadTo(NumberBytes(p.vals, 1), 0)
      [] p.pv \in {"I16", "U16"} -> NumberBytes(p.vals, 2)
      [] p.pv \in {"I32", "U32", "F32", "Tags"} -> NumberBytes(p.vals, 4)
      [] p.pv \in {"I64", "U64", "F64"} -> NumberBytes(p.vals, 8)

TextInputs == {"", "A", "CT", "PET", "1.2.840.10008.1.2", "^Bob^^Dr.", "Simões^João", "João"}
TextLists == { << >>, << "CT" >>, << "CT", "PET" >>, << "A", "CT" >>, << "PET", "João" >> }
ByteLists == { << >>, << 0 >>, << 0, 1 >>, << 0, 1, 2 >>, << 0, 1, 2, 3 >> }

\* the primitive values an element is built from, each with a VR it goes with
ElementInputs ==
    {<< Str(s), r >> : s \in TextInputs, r \in {"PN", "LO", "UI"}}
        \cup {<< Prim("Strs", l), r >> : l \in TextLists, r \in {"CS", "UI"}}
        \cup {<< Prim("U8", l), "OB" >> : l \in ByteLists}
        \cup {<< Prim("U16", l), "US" >> : l \in ByteLists}
        \cup {<< Prim("I32", l), "SL" >> : l \in ByteLists}
        \cup {<< Prim("F64", l), "FD" >> : l \in ByteLists}
        \cup {<< Empty, "LO" >>}

ValIdle ==
    /\ elemValue = Empty
    /\ elemVr = "UN"
    /\ elemLen = None
    /\ written = None
    /\ valPc = "idle"

ValInit ==
    /\ \E in \in ElementInputs : elemValue = in[1] /\ elemVr = in[2]
    /\ elemLen = None
    /\ written = None
    /\ valPc = "value"

\* `let elem = DataElement::new(tag, vr, value); elem.length()`
NewElement ==
    /\ valPc = "value"
    /\ elemLen' = Some(DataElement_new(Tag(16, 16), elemVr, Primitive(elemValue)).len)
    /\ valPc' = "element"
    /\ UNCHANGED << elemValue, elemVr, written >>

\* the encoder writes the value of the element
WriteValue ==
    /\ valPc = "element"
    /\ written' = Some(EncodeValue(elemValue, elemVr))
    /\ valPc' = "written"
    /\ UNCHANGED << elemValue, elemVr, elemLen >>

----------------------------------------------------------------------------
(* The deserializer of a data set as a state machine: the map access hands  *)
(* out one entry (a tag key and a data element object) at a time            *)

\* the keys of the data set map: tags, two spellings of one tag among them,
\* and a key that is no tag
TagKeys == {"00080005", "00091002", "0020000d", "0020000D", "0008"}

\* the data element objects of the map, one that is an error among them
ElementDocs ==
    { JObj(<< << "vr", JStr("CS") >>, << "Value", JArr(<< JStr("ISO_IR 192") >>) >> >>),
      JObj(<< << "vr", JStr("UN") >>, << "InlineBinary", JStr("z0x9c8v7") >> >>),
      JObj(<< << "vr", JStr("UN") >>, << "Value", JArr(<< >>) >> >>) }

ObjIdle ==
    /\ objDoc = << >>
    /\ obj = new_empty_with_dict
    /\ objPc = "loop"
    /\ objErr = None

\* put that leaves the element of a tag that is taken
PutParsed_KeepFirst(o, t, e) ==
    IF ~IsOk(t) THEN t
    ELSE IF ~IsOk(e) THEN e
    ELSE IF t.val \in DOMAIN o THEN Ok(o)
    ELSE Ok(put(o, DataElement_new(t.val, e.val.vr, e.val.value)))

\* one turn of the loop, given the tag and the element of `map.next_entry()?`:
\* the error of either, or `obj.put(DataElement::new(tag, vr, value))`
PutParsed(o, t, e) ==
    IF ~IsOk(t) THEN t
    ELSE IF ~IsOk(e) THEN e
    ELSE Ok(put(o, DataElement_new(t.val, e.val.vr, e.val.value)))

\* the object after the turn, or the error returned
ObjStep(r) ==
    IF IsOk(r) THEN obj' = r.val /\ UNCHANGED << objPc, objErr >>
    ELSE objPc' = "err" /\ objErr' = Some(r) /\ UNCHANGED obj

\* `while let Some(e) = map.next_entry::<DicomJson<Tag>, JsonDataElement<D>>()?`
NextEntry ==
    /\ objPc = "loop"
    /\ Len(objDoc) < MaxEntries
    /\ \E k \in TagKeys, j \in ElementDocs :
        /\ objDoc' = Append(objDoc, << k, j >>)
        /\ ObjStep(PutParsed(obj, DicomJsonTag_deserialize(JStr(k)), JsonDataElement_deserialize(j)))

\* next_entry() is None: `Ok(obj)`
EndOfEntries ==
    /\ objPc = "loop"
    /\ objPc' = "done"
    /\ UNCHANGED << objDoc, obj, objErr >>

----------------------------------------------------------------------------
(* decode_pixel_data *)

\* Value::PixelSequence
PixelSequence(frags) == [variant |-> "PixelSequence", fragments |-> frags]

\* the errors of the pipeline
PixelError(kind, what) == Err([kind |-> kind, what |-> what])

\* the attributes read with `?`, in the order of their reads
HeadAttributes == << "pixel_data", "cols", "rows", "photometric_interpretation" >>
TailAttributes ==
    << "samples_per_pixel", "bits_allocated", "bits_stored", "high_bit",
       "pixel_representation", "number_of_frames", "voi_lut_function" >>
WindowAttributes == << "window_center", "window_width" >>
\* the attributes read without `?`
PlainAttributes == {"rescale_intercept", "rescale_slope", "planar_configuration"}
Range(seq) == {seq[i] : i \in 1..Len(seq)}
FallibleAttributes == Range(HeadAttributes) \cup Range(TailAttributes) \cup Range(WindowAttributes)

\* a function of super::attribute on the object: the value, or GetAttribute
Read(o, name) ==
    IF name \in o.failing THEN PixelError("GetAttribute", name) ELSE Ok(o.attrs[name])

\* GDCMPhotometricInterpretation::from_str and GDCMTransferSyntax::from_str:
\* what the third-party decoder knows
GdcmPhotometricInterpretations == {"MONOCHROME1", "MONOCHROME2", "RGB", "YBR_FULL", "PALETTE COLOR"}
GdcmTransferSyntaxes == {ts.uid : ts \in BuiltIn}

\* the registry the pipeline asks: the built-in entries and a private one
\* that the third-party decoder does not know
PrivateUid == "1.2.840.10008.1.999.9999.99999"
PixelRegistry ==
    register(RegistryOf(BuiltIn),
             submit_ele_transfer_syntax(PrivateUid, "Dummy Little Endian", "EncapsulatedPixelData"))

\* `GDCMPhotometricInterpretation::from_str(..).map_err(..)?`
pi_type(o) ==
    IF o.attrs["photometric_interpretation"] \in GdcmPhotometricInterpretations
    THEN Ok(o.attrs["photometric_interpretation"])
    ELSE PixelError("UnsupportedPhotometricInterpretation", o.attrs["photometric_interpretation"])

\* `TransferSyntaxRegistry.get(..).context(UnknownTransferSyntaxSnafu { ts_uid })?`
LookUp(o, found_ts) ==
    IF found_ts.some THEN Ok(found_ts.val) ELSE PixelError("UnknownTransferSyntax", o.transfer_syntax)
registry_get(o) == LookUp(o, get(PixelRegistry, o.transfer_syntax))

\* `GDCMTransferSyntax::from_str(&registry.uid()).map_err(..)?`
TsType(o, found_ts) ==
    IF ~found_ts.some \/ found_ts.val.uid \in GdcmTransferSyntaxes THEN Ok(found_ts)
    ELSE PixelError("UnsupportedTransferSyntax", o.transfer_syntax)
ts_type(o) == TsType(o, get(PixelRegistry, o.transfer_syntax))

\* the reads and checks with the registry asked before any attribute is read
Checks_RegistryFirst(o) ==
    << registry_get(o), ts_type(o) >>
        \o [i \in 1..4 |-> Read(o, HeadAttributes[i])]
        \o << pi_type(o) >>
        \o [i \in 1..7 |-> Read(o, TailAttributes[i])]

\* the reads and checks before the match, in their order: each is Ok or the
\* error that `?` returns
Checks(o) ==
    [i \in 1..4 |-> Read(o, HeadAttributes[i])]
        \o << pi_type(o), registry_get(o), ts_type(o) >>
        \o [i \in 1..7 |-> Read(o, TailAttributes[i])]

\* `rescale_intercept(self)` and `rescale_slope(self)`: the attribute, or
\* the default of an object without it
rescale_intercept(o) ==
    IF "rescale_intercept" \in o.failing THEN 0 ELSE o.attrs["rescale_intercept"]
rescale_slope(o) ==
    IF "rescale_slope" \in o.failing THEN 1 ELSE o.attrs["rescale_slope"]

\* `.and_then(|v| VoiLutFunction::try_from(&*v).ok())`
VoiLutFunctions == {"LINEAR", "LINEAR_EXACT", "SIGMOID"}
voi_lut_function(o) ==
    IF o.attrs["voi_lut_function"].some /\ o.attrs["voi_lut_function"].val \in VoiLutFunctions
    THEN o.attrs["voi_lut_function"] ELSE None

\* the parameters after the fragments and the dimensions
Parameters(o) ==
    [ pi_type |-> o.attrs["photometric_interpretation"],
      ts_type |-> TrimPadding(o.transfer_syntax),
      samples_per_pixel |-> o.attrs["samples_per_pixel"],
      bits_allocated |-> o.attrs["bits_allocated"],
      bits_stored |-> o.attrs["bits_stored"],
      high_bit |-> o.attrs["high_bit"],
      pixel_representation |-> o.attrs["pixel_representation"] ]

Call(fn, frags, dims, params) ==
    [fn |-> fn, fragments |-> frags, dims |-> dims, params |-> params]

\* the call made in the PixelSequence arm; `&fragments[0]` of no fragments
\* is a panic
DecoderCall(o, fragments) ==
    IF Len(fragments) > 1
    THEN Ok(Call("decode_multi_frame_compressed", fragments,
                 << o.attrs["cols"], o.attrs["rows"], o.attrs["number_of_frames"] >>, Parameters(o)))
    ELSE IF Len(fragments) = 0 THEN Panic("index out of bounds: the len is 0 but the index is 0")
    ELSE Ok(Call("decode_single_frame_compressed", << fragments[1] >>,
                 << o.attrs["cols"], o.attrs["rows"] >>, Parameters(o)))

\* `.map_err(gdcm_error_mapper).context(DecodePixelDataSnafu)?.to_vec()`
Decoded(outcome) ==
    IF IsOk(outcome) THEN outcome ELSE PixelError("DecodePixelData", outcome.msg)

\* PrimitiveValue::to_bytes of a value of bytes
to_bytes(p) == p.vals

\* the native arm giving the first half of the bytes
NativeBytes_FirstHalf(p) == SubSeq(to_bytes(p), 1, Len(to_bytes(p)) \div 2)

\* `p.to_bytes().to_vec()`
NativeBytes(p) == to_bytes(p)

\* the Sequence arm taken for no data
InvalidPixelData_NoData == Ok(<< >>)

\* `InvalidPixelDataSnafu.fail()?`
InvalidPixelData == PixelError("InvalidPixelData", "")

\* new_pi that keeps the photometric interpretation of the object
new_pi_Kept(o) == o.attrs["photometric_interpretation"]

\* `let new_pi = match samples_per_pixel { .. }`
new_pi(o) ==
    CASE o.attrs["samples_per_pixel"] = 1 -> "MONOCHROME2"
      [] o.attrs["samples_per_pixel"] = 3 -> "RGB"
      [] OTHER -> o.attrs["photometric_interpretation"]

\* `window_width.map(|width| WindowLevel { center: window_center, width })`
WindowLevel(center, width) ==
    IF width.some THEN Some([center |-> center, width |-> width.val]) ELSE None

\* `let window = if let Some(window_center) = window_center(self)? { .. } else { None }`
window(o) ==
    IF ~IsOk(Read(o, "window_center")) THEN Read(o, "window_center")
    ELSE IF ~o.attrs["window_center"].some THEN Ok(None)
    ELSE IF ~IsOk(Read(o, "window_width")) THEN Read(o, "window_width")
    ELSE Ok(WindowLevel(o.attrs["window_center"].val, o.attrs["window_width"]))

\* `Ok(DecodedPixelData { .. })`
DecodedPixelData(o, data, w) ==
    [ data |-> data,
      cols |-> o.attrs["cols"],
      rows |-> o.attrs["rows"],
      number_of_frames |-> o.attrs["number_of_frames"],
      photometric_interpretation |-> new_pi(o),
      samples_per_pixel |-> o.attrs["samples_per_pixel"],
      planar_configuration |-> "Standard",
      bits_allocated |-> o.attrs["bits_allocated"],
      bits_stored |-> o.attrs["bits_stored"],
      high_bit |-> o.attrs["high_bit"],
      pixel_representation |-> o.attrs["pixel_representation"],
      rescale_intercept |-> rescale_intercept(o),
      rescale_slope |-> rescale_slope(o),
      voi_lut_function |-> voi_lut_function(o),
      window |-> w ]

\* what follows the match: the window, then the result
Finished(o, data, w) == IF IsOk(w) THEN Ok(DecodedPixelData(o, data, w.val)) ELSE w

\* the objects given to decode_pixel_data
Fragments(n) == [i \in 1..n |-> << i, 255 - i >>]
PixelValues ==
    {Primitive(Prim("U8", << 0, 1, 2, 3 >>)), Sequence(<< >>)}
        \cup {PixelSequence(Fragments(n)) : n \in 0..MaxFragments}
ExplicitVRLittleEndian == "1.2.840.10008.1.2.1"

Attributes(value, cols, pi, spp, planar, voi, center, width, frames) ==
    [ pixel_data |-> value, cols |-> cols, rows |-> 2, photometric_interpretation |-> pi,
      samples_per_pixel |-> spp, bits_allocated |-> 8, bits_stored |-> 8, high_bit |-> 7,
      pixel_representation |-> 0, number_of_frames |-> frames, voi_lut_function |-> voi,
      window_center |-> center, window_width |-> width,
      rescale_intercept |-> -1024, rescale_slope |-> 2, planar_configuration |-> planar ]

Object(ts, attrs, failing) == [transfer_syntax |-> ts, attrs |-> attrs, failing |-> failing]

\* objects all of whose attributes can be read
ReadableObjects ==
    { Object(ts, Attributes(value, cols, pi, spp, planar, voi, w[1], w[2], frames), {}) :
        ts \in {ExplicitVRLittleEndian, "1.2.840.10008.1.2.4.50" \o NUL, "1.2.3.4", PrivateUid},
        value \in PixelValues,
        cols \in {2, 3},
        pi \in {"MONOCHROME1", "YBR_FULL", "XYZ"},
        spp \in {1, 3, 4},
        planar \in {"Standard", "PixelFirst"},
        voi \in {None, Some("LINEAR"), Some("bogus")},
        w \in {<< None, None >>, << Some(40), None >>, << Some(40), Some(400) >>},
        frames \in {1, 2} }

\* objects with attributes whose read fails
MissingAttributes == FallibleAttributes \cup {"rescale_intercept", "rescale_slope"}
FailingSets == {f \in SUBSET MissingAttributes : Cardinality(f) \in 1..MaxFailing}
FailingObjects ==
    { Object(ts, Attributes(value, 2, pi, 1, "Standard", None, Some(40), Some(400), 1), failing) :
        ts \in {ExplicitVRLittleEndian, "1.2.3.4", PrivateUid},
        value \in PixelValues,
        pi \in {"MONOCHROME1", "XYZ"},
        failing \in FailingSets }

PixelObjects == ReadableObjects \cup FailingObjects

\* what the third-party decoder returns
DecoderOutcomes == {Ok(<< 7, 7, 7, 7 >>), Err("decoder failure")}

PixIdle ==
    /\ pixObj = Object(ExplicitVRLittleEndian,
                       Attributes(Primitive(Empty), 2, "MONOCHROME2", 1, "Standard", None, None, None, 1), {})
    /\ pixPc = "idle"
    /\ pixCall = None
    /\ pixData = << >>
    /\ pixResult = None

PixInit ==
    /\ pixObj \in PixelObjects
    /\ pixPc = "start"
    /\ pixCall = None
    /\ pixData = << >>
    /\ pixResult = None

\* `?`: the error is returned, or the function goes on to the match
HeadStep(r) ==
    IF IsOk(r) THEN pixPc' = "match" /\ UNCHANGED pixResult
    ELSE pixPc' = "err" /\ pixResult' = Some(r)

\* the bytes of the match, or the error returned
DataStep(d) ==
    IF IsOk(d) THEN pixData' = d.val /\ pixPc' = "decoded" /\ UNCHANGED pixResult
    ELSE pixPc' = "err" /\ pixResult' = Some(d) /\ UNCHANGED pixData

\* the call and what comes of it, or the panic
CallStep(c, outcome) ==
    IF IsOk(c) THEN pixCall' = Some([call |-> c.val, returned |-> outcome]) /\ DataStep(Decoded(outcome))
    ELSE pixPc' = "panic" /\ pixResult' = Some(c) /\ UNCHANGED << pixCall, pixData >>

\* the result
FinalStep(r) ==
    /\ pixPc' = IF IsOk(r) THEN "done" ELSE "err"
    /\ pixResult' = Some(r)

\* the reads and checks before `match pixel_data.value()`
ReadAttributes ==
    /\ pixPc = "start"
    /\ HeadStep(AllOrFirstErr(Checks(pixObj)))
    /\ UNCHANGED << pixObj, pixCall, pixData >>

\* the arm Value::PixelSequence
DecodeFragments ==
    /\ pixPc = "match"
    /\ pixObj.attrs["pixel_data"].variant = "PixelSequence"
    /\ \E outcome \in DecoderOutcomes :
        CallStep(DecoderCall(pixObj, pixObj.attrs["pixel_data"].fragments), outcome)
    /\ UNCHANGED pixObj

\* the arm Value::Primitive
CopyNative ==
    /\ pixPc = "match"
    /\ pixObj.attrs["pixel_data"].variant = "Primitive"
    /\ DataStep(Ok(NativeBytes(pixObj.attrs["pixel_data"].prim)))
    /\ UNCHANGED << pixObj, pixCall >>

\* the arm Value::Sequence
RejectSequence ==
    /\ pixPc = "match"
    /\ pixObj.attrs["pixel_data"].variant = "Sequence"
    /\ DataStep(InvalidPixelData)
    /\ UNCHANGED << pixObj, pixCall >>

\* after the match: the new photometric interpretation, the window, the result
Finish ==
    /\ pixPc = "decoded"
    /\ FinalStep(Finished(pixObj, pixData, window(pixObj)))
    /\ UNCHANGED << pixObj, pixCall, pixData >>

----------------------------------------------------------------------------
(* Decode::decode_header under Explicit VR Little Endian *)

\* Read::read_exact: the next n bytes of the source, or the error of a
\* source that ends before them
read_exact(source, pos, n) ==
    IF pos + n <= Len(source) THEN Ok(SubSeq(source, pos + 1, pos + n))
    ELSE Err("failed to fill whole buffer")

\* BasicDecode::decode_us, little endian
decode_us(b) == b[1] + 256 * b[2]

\* BasicDecode::decode_tag: `Tag(g, e)` of two decode_us
decode_tag(b) == Tag(decode_us(<< b[1], b[2] >>), decode_us(<< b[3], b[4] >>))

\* the 4-byte length field, little endian; 0xFFFF_FFFF is the undefined length
decode_length_ul(b) ==
    IF b = << 255, 255, 255, 255 >> THEN Undefined
    ELSE Defined(decode_us(<< b[1], b[2] >>) + 65536 * decode_us(<< b[3], b[4] >>))

\* the 2-byte length field, little endian
decode_length_us(b) == Defined(decode_us(b))

\* the letter of an ASCII code of a capital
Letter(b) == CharAt("ABCDEFGHIJKLMNOPQRSTUVWXYZ", b - 64)

\* the VR of the 2-byte code
VR_from_binary(b) == Letter(b[1]) \o Letter(b[2])

\* (FFFE,E000) item, (FFFE,E00D) item delimiter, (FFFE,E0DD) sequence delimiter
DelimiterTags == {Tag(65534, 57344), Tag(65534, 57357), Tag(65534, 57565)}

\* the long-length VRs without UV
LongLengthVRs_WithoutUV == {"OB", "OD", "OF", "OL", "OV", "OW", "SQ", "UC", "UN", "UR", "UT"}

\* the VRs followed by 2 reserved bytes and a 4-byte length
LongLengthVRs == {"OB", "OD", "OF", "OL", "OV", "OW", "SQ", "UC", "UN", "UR", "UT", "UV"}

DataElementHeader(t, r, len) == [tag |-> t, vr |-> r, len |-> len]

\* `Ok((header, bytes_read))`
Decoded_header(h, bytes_read) == Ok([header |-> h, bytes_read |-> bytes_read])

\* the errors of the header codec
HeaderError(kind) == Err([kind |-> kind])

\* the encoded forms the sources are made of
TagBytes == {<< 16, 0, 16, 0 >>, << 224, 127, 16, 0 >>}
DelimiterBytes == {<< 254, 255, 0, 224 >>, << 254, 255, 13, 224 >>, << 254, 255, 221, 224 >>}
ShortVrBytes == {<< 80, 78 >>, << 85, 83 >>}
LongVrBytes == {<< 79, 66 >>, << 83, 81 >>, << 85, 86 >>}
ReservedBytes == {<< 0, 0 >>, << 1, 2 >>}
ShortLengthBytes == {<< 12, 0 >>, << 255, 255 >>}
LongLengthBytes == {<< 12, 0, 0, 0 >>, << 0, 0, 1, 0 >>, << 255, 255, 255, 255 >>}
ValueBytes == {[i \in 1..n |-> 77] : n \in 0..MaxValueBytes}

\* the bytes of a header followed by the first bytes of the value
Elements ==
    {t \o r \o l \o v : t \in TagBytes, r \in ShortVrBytes, l \in ShortLengthBytes, v \in ValueBytes}
        \cup {t \o r \o z \o l \o v : t \in TagBytes, r \in LongVrBytes, z \in ReservedBytes,
                                      l \in LongLengthBytes, v \in ValueBytes}
        \cup {t \o l \o v : t \in DelimiterBytes, l \in LongLengthBytes, v \in ValueBytes}

\* the sources: the elements, and the sources that end within them
Sources == UNION {{SubSeq(e, 1, n) : n \in 0..Len(e)} : e \in Elements}

HdrIdle ==
    /\ hdrSource = << >>
    /\ hdrPos = 0
    /\ hdrPc = "idle"
    /\ hdrTag = Tag(0, 0)
    /\ hdrVr = "UN"
    /\ hdrResult = None

HdrInit ==
    /\ hdrSource \in Sources
    /\ hdrPos = 0
    /\ hdrPc = "start"
    /\ hdrTag = Tag(0, 0)
    /\ hdrVr = "UN"
    /\ hdrResult = None

\* a read failed: the error is returned
HeaderFails(kind) ==
    /\ hdrPc' = "err"
    /\ hdrResult' = Some(HeaderError(kind))
    /\ UNCHANGED << hdrPos, hdrTag, hdrVr >>

\* the header is returned
HeaderReturns(r, n) ==
    /\ hdrPc' = "done"
    /\ hdrPos' = hdrPos + n
    /\ hdrResult' = Some(r)
    /\ UNCHANGED << hdrTag, hdrVr >>

\* the tag is read: 4 bytes
TagStep(b) ==
    IF IsOk(b)
    THEN /\ hdrTag' = decode_tag(b.val)
         /\ hdrPos' = hdrPos + 4
         /\ hdrPc' = IF decode_tag(b.val) \in DelimiterTags THEN "delimiter" ELSE "vr"
         /\ UNCHANGED << hdrVr, hdrResult >>
    ELSE HeaderFails("ReadHeaderTag")

HeaderTag ==
    /\ hdrPc = "start"
    /\ TagStep(read_exact(hdrSource, hdrPos, 4))
    /\ UNCHANGED hdrSource

\* a delimiter: the 4-byte length, VR UN, 8 bytes read
DelimiterStep(b) ==
    IF IsOk(b)
    THEN HeaderReturns(Decoded_header(DataElementHeader(hdrTag, "UN", decode_length_ul(b.val)), 8), 4)
    ELSE \E kind \in {"ReadLength", "ReadItemLength"} : HeaderFails(kind)

DelimiterLength ==
    /\ hdrPc = "delimiter"
    /\ DelimiterStep(read_exact(hdrSource, hdrPos, 4))
    /\ UNCHANGED hdrSource

\* the 2-byte VR code
VrStep(b) ==
    IF IsOk(b)
    THEN /\ hdrVr' = VR_from_binary(b.val)
         /\ hdrPos' = hdrPos + 2
         /\ hdrPc' = IF VR_from_binary(b.val) \in LongLengthVRs THEN "reserved" ELSE "short"
         /\ UNCHANGED << hdrTag, hdrResult >>
    ELSE HeaderFails("ReadVr")

HeaderVr ==
    /\ hdrPc = "vr"
    /\ VrStep(read_exact(hdrSource, hdrPos, 2))
    /\ UNCHANGED hdrSource

\* the 2 reserved bytes are skipped
ReservedStep(b) ==
    IF IsOk(b)
    THEN /\ hdrPos' = hdrPos + 2
         /\ hdrPc' = "long"
         /\ UNCHANGED << hdrTag, hdrVr, hdrResult >>
    ELSE HeaderFails("ReadReserved")

Reserved ==
    /\ hdrPc = "reserved"
    /\ ReservedStep(read_exact(hdrSource, hdrPos, 2))
    /\ UNCHANGED hdrSource

\* the 4-byte length of a long-length VR: 12 bytes read
LongStep(b) ==
    IF IsOk(b)
    THEN HeaderReturns(Decoded_header(DataElementHeader(hdrTag, hdrVr, decode_length_ul(b.val)), 12), 4)
    ELSE HeaderFails("ReadLength")

LongLength ==
    /\ hdrPc = "long"
    /\ LongStep(read_exact(hdrSource, hdrPos, 4))
    /\ UNCHANGED hdrSource

\* the 2-byte length of any other VR: 8 bytes read
ShortStep(b) ==
    IF IsOk(b)
    THEN HeaderReturns(Decoded_header(DataElementHeader(hdrTag, hdrVr, decode_length_us(b.val)), 8), 2)
    ELSE HeaderFails("ReadLength")

ShortLength ==
    /\ hdrPc = "short"
    /\ ShortStep(read_exact(hdrSource, hdrPos, 2))
    /\ UNCHANGED hdrSource

----------------------------------------------------------------------------
(* BasicDecode::decode_us_into .. decode_fd_into, little endian *)

BulkKinds == {"us", "ul", "uv", "ss", "sl", "sv", "fl", "fd"}

\* the bytes of one value: u16 and i16, u32, i32 and f32, u64, i64 and f64
Width(kind) ==
    CASE kind \in {"us", "ss"} -> 2
      [] kind \in {"ul", "sl", "fl"} -> 4
      [] OTHER -> 8

\* the 16-bit words of the bytes, the least significant first
Words(b) == [i \in 1..(Len(b) \div 2) |-> decode_us(<< b[2 * i - 1], b[2 * i] >>)]

\* the most significant word in two's complement
SignedTop(w) ==
    [i \in 1..Len(w) |-> IF i = Len(w) /\ w[i] >= 32768 THEN w[i] - 65536 ELSE w[i]]

\* a value decoded from its bytes: its words, the top one signed for the
\* signed integers; the words of a float are its bits
ValueOf(kind, b) ==
    [ty |-> kind, words |-> IF kind \in {"ss", "sl", "sv"} THEN SignedTop(Words(b)) ELSE Words(b)]

\* decode_us, decode_ul, .. decode_fd on the source: the read that the
\* source fails, the value of the next bytes, or the error of a source that
\* ends before them
decode_one(kind, source, fail_at, pos, reads) ==
    IF reads + 1 = fail_at THEN Err("broken pipe")
    ELSE IF IsOk(read_exact(source, pos, Width(kind)))
    THEN Ok(ValueOf(kind, read_exact(source, pos, Width(kind)).val))
    ELSE read_exact(source, pos, Width(kind))

\* what the destination holds before the call
OldValue(i) == [ty |-> "old", words |-> << i >>]

\* the bytes of the sources
ByteAt(seed, i) == (seed + 37 * i) % 256
SourceOf(seed, n) == [i \in 1..n |-> ByteAt(seed, i)]
BulkSources == {SourceOf(seed, n) : seed \in {1, 255}, n \in 0..(8 * MaxDst + 1)}

BulkIdle ==
    /\ bulkKind = "us"
    /\ bulkSource = << >>
    /\ bulkFailAt = 0
    /\ bulkPos = 0
    /\ bulkReads = 0
    /\ bulkDst = << >>
    /\ bulkPc = "idle"
    /\ bulkResult = None

BulkInit ==
    /\ bulkKind \in BulkKinds
    /\ bulkSource \in BulkSources
    /\ bulkFailAt \in 0..MaxDst
    /\ bulkPos = 0
    /\ bulkReads = 0
    /\ bulkDst \in {[i \in 1..n |-> OldValue(i)] : n \in 0..MaxDst}
    /\ bulkPc = "loop"
    /\ bulkResult = None

\* the value is stored before the `?`, in the place of the one not read
ElementStep_StoreDefault(r) ==
    /\ bulkReads' = bulkReads + 1
    /\ IF IsOk(r)
       THEN /\ bulkDst' = [bulkDst EXCEPT ![bulkReads + 1] = r.val]
            /\ bulkPos' = bulkPos + Width(bulkKind)
            /\ UNCHANGED << bulkPc, bulkResult >>
       ELSE /\ bulkPc' = "err"
            /\ bulkResult' = Some(r)
            /\ bulkDst' = [bulkDst EXCEPT ![bulkReads + 1] = ValueOf(bulkKind, << >>)]
            /\ UNCHANGED bulkPos

\* `*v = self.decode_us(&mut source)?;`
ElementStep(r) ==
    /\ bulkReads' = bulkReads + 1
    /\ IF IsOk(r)
       THEN /\ bulkDst' = [bulkDst EXCEPT ![bulkReads + 1] = r.val]
            /\ bulkPos' = bulkPos + Width(bulkKind)
            /\ UNCHANGED << bulkPc, bulkResult >>
       ELSE /\ bulkPc' = "err"
            /\ bulkResult' = Some(r)
            /\ UNCHANGED << bulkPos, bulkDst >>

\* one turn of `for v in dst.iter_mut()`
DecodeElement ==
    /\ bulkPc = "loop"
    /\ bulkReads < Len(bulkDst)
    /\ ElementStep(decode_one(bulkKind, bulkSource, bulkFailAt, bulkPos, bulkReads))
    /\ UNCHANGED << bulkKind, bulkSource, bulkFailAt >>

\* `Ok(())` after the loop
EndOfDst ==
    /\ bulkPc = "loop"
    /\ bulkReads = Len(bulkDst)
    /\ bulkPc' = "done"
    /\ bulkResult' = Some(Ok(<< >>))
    /\ UNCHANGED << bulkKind, bulkSource, bulkFailAt, bulkPos, bulkReads, bulkDst >>

----------------------------------------------------------------------------
(* Specifications *)

\* the deserializer of one data element
Init == JsonIdle /\ TagIdle /\ RegIdle /\ ValIdle /\ ObjIdle /\ PixIdle /\ HdrIdle /\ BulkIdle
Next ==
    \/ NoKeys /\ UNCHANGED exceptJson
    \/ FirstKey /\ UNCHANGED exceptJson
    \/ NextKey /\ UNCHANGED exceptJson
    \/ EndOfKeys /\ UNCHANGED exceptJson
Spec == Init /\ [][Next]_vars

\* a tag written and read back
InitTag == JsonIdle /\ TagInit /\ RegIdle /\ ValIdle /\ ObjIdle /\ PixIdle /\ HdrIdle /\ BulkIdle
NextTag ==
    \/ WriteTag /\ UNCHANGED exceptTag
    \/ ReadTag /\ UNCHANGED exceptTag
SpecTag == InitTag /\ [][NextTag]_vars

\* the registry: static initialization, then lookups
InitRegistry == JsonIdle /\ TagIdle /\ RegIdle /\ ValIdle /\ ObjIdle /\ PixIdle /\ HdrIdle /\ BulkIdle
NextRegistry ==
    \/ Submit /\ UNCHANGED exceptReg
    \/ Freeze /\ UNCHANGED exceptReg
    \/ Get /\ UNCHANGED exceptReg
SpecRegistry == InitRegistry /\ [][NextRegistry]_vars

\* an element built from a value, and the value written
InitValue == JsonIdle /\ TagIdle /\ RegIdle /\ ValInit /\ ObjIdle /\ PixIdle /\ HdrIdle /\ BulkIdle
NextValue ==
    \/ NewElement /\ UNCHANGED exceptVal
    \/ WriteValue /\ UNCHANGED exceptVal
SpecValue == InitValue /\ [][NextValue]_vars

\* the deserializer of a data set
InitObject == JsonIdle /\ TagIdle /\ RegIdle /\ ValIdle /\ ObjIdle /\ PixIdle /\ HdrIdle /\ BulkIdle
NextObject ==
    \/ NextEntry /\ UNCHANGED exceptObj
    \/ EndOfEntries /\ UNCHANGED exceptObj
SpecObject == InitObject /\ [][NextObject]_vars

\* decode_pixel_data on an object
InitPixel == JsonIdle /\ TagIdle /\ RegIdle /\ ValIdle /\ ObjIdle /\ PixInit /\ HdrIdle /\ BulkIdle
NextPixel ==
    \/ ReadAttributes /\ UNCHANGED exceptPix
    \/ DecodeFragments /\ UNCHANGED exceptPix
    \/ CopyNative /\ UNCHANGED exceptPix
    \/ RejectSequence /\ UNCHANGED exceptPix
    \/ Finish /\ UNCHANGED exceptPix
SpecPixel == InitPixel /\ [][NextPixel]_vars

\* decode_header on a source, Explicit VR Little Endian
InitHeader == JsonIdle /\ TagIdle /\ RegIdle /\ ValIdle /\ ObjIdle /\ PixIdle /\ HdrInit /\ BulkIdle
NextHeader ==
    \/ HeaderTag /\ UNCHANGED exceptHdr
    \/ DelimiterLength /\ UNCHANGED exceptHdr
    \/ HeaderVr /\ UNCHANGED exceptHdr
    \/ Reserved /\ UNCHANGED exceptHdr
    \/ LongLength /\ UNCHANGED exceptHdr
    \/ ShortLength /\ UNCHANGED exceptHdr
SpecHeader == InitHeader /\ [][NextHeader]_vars

\* a bulk decode into a destination
InitBulk == JsonIdle /\ TagIdle /\ RegIdle /\ ValIdle /\ ObjIdle /\ PixIdle /\ HdrIdle /\ BulkInit
NextBulk ==
    \/ DecodeElement /\ UNCHANGED exceptBulk
    \/ EndOfDst /\ UNCHANGED exceptBulk
SpecBulk == InitBulk /\ [][NextBulk]_vars

----------------------------------------------------------------------------
(* Properties of the deserializer of a data element (Spec) *)

\* the keys of the entries handed out so far
Keys == {doc[i][1] : i \in 1..Len(doc)}
Failed == pc = "err" /\ result.some /\ IsErr(result.val)
Accepted == pc = "done" /\ result.some /\ IsOk(result.val)
element == result.val.val

\* C1: an object with no keys, or whose first key is not "vr", is a parse
\* error whatever follows, and no element is produced
C1_FirstKeyMustBeVr ==
    (pc # "start" /\ (doc = << >> \/ doc[1][1] # "vr")) => Failed

C1_Witness ==
    /\ Failed
    /\ Len(doc) = 1
    /\ doc[1][1] = "InlineBinary"
    /\ result.val.msg = "expected \"vr\" to be the first field"

\* C2: an object with both "Value" and "InlineBinary", in either order, is a
\* parse error; the locals never hold both a value and an inline binary
\* string, and the unreachable!() arm is never taken
C2_ValueXorInlineBinary ==
    /\ ({"Value", "InlineBinary"} \subseteq Keys => Failed)
    /\ ~(values.some /\ inline_binary.some)
    /\ pc # "panic"

C2_Witness ==
    /\ Failed
    /\ Len(doc) = 3
    /\ doc[2][1] = "Value"
    /\ doc[3][1] = "InlineBinary"
    /\ result.val.msg = "\"InlineBinary\" conflicts with \"Value\""

\* C3: with the VR UN, a "Value" key is a parse error whatever the array
\* holds; an accepted UN element has "InlineBinary" or no value key
C3_UnknownWithValue ==
    /\ (vr = "UN" /\ "Value" \in Keys => Failed)
    /\ (Accepted /\ element.vr = "UN" => Keys \subseteq {"vr", "InlineBinary"})

C3_Witness ==
    /\ Failed
    /\ doc = << << "vr", JStr("UN") >>, << "Value", JArr(<< >>) >> >>
    /\ result.val.msg = "can't parse JSON Value in UN"

\* the document with "UN" in the place of the string given as "vr"
WithUN == << << "vr", JStr("UN") >> >> \o Tail(doc)
UnrecognizedVR == doc # << >> /\ doc[1][1] = "vr" /\ doc[1][2].kind = "string" /\ doc[1][2].v \notin VRs

\* C4: a "vr" string that is no VR code is no error by itself: the VR is UN,
\* and the outcome is that of the same document with "vr": "UN"
C4_UnrecognizedVRIsUN ==
    UnrecognizedVR =>
        /\ vr = "UN"
        /\ (Len(doc) = 1 => pc \in {"loop", "done"})
        /\ (pc \in {"done", "err"} => result.val = DataElementVisitor_visit_map(WithUN))

C4_Witness ==
    /\ Accepted
    /\ doc = << << "vr", JStr("XX") >>, << "InlineBinary", JStr("z0x9c8v7") >> >>
    /\ element.vr = "UN"
    /\ element.value = Primitive(Prim("U8", << 207, 76, 125, 115, 203, 251 >>))

\* C10: in an accepted element, the value is a Sequence if and only if the VR
\* is SQ
C10_SequenceIffSQ ==
    Accepted => (element.vr = "SQ" <=> element.value.variant = "Sequence")

----------------------------------------------------------------------------
(* Properties of the registry (SpecRegistry) *)

BaseUids == {"1.2.840.10008.1.2", "1.2.840.10008.1.2.1", "1.2.840.10008.1.2.2"}
BaseName(u) ==
    CASE u = "1.2.840.10008.1.2" -> "Implicit VR Little Endian"
      [] u = "1.2.840.10008.1.2.1" -> "Explicit VR Little Endian"
      [] u = "1.2.840.10008.1.2.2" -> "Explicit VR Big Endian"

\* a lookup was made, with the UID u bare or padded with one NUL
LookedUp(u) == found.some /\ query \in {u, u \o NUL}

\* C5: a lookup of a registered UID, bare or padded with one NUL, gives the
\* descriptor of the bare UID; the three base transfer syntaxes are registered
\* under their names and fully supported
C5_LookupIgnoresPadding ==
    /\ \A u \in DOMAIN registry :
        LookedUp(u) => found.val = Some(registry[u]) /\ found.val.val.uid = u
    /\ \A u \in BaseUids :
        /\ u \in DOMAIN registry
        /\ LookedUp(u) => found.val.val.name = BaseName(u) /\ fully_supported(found.val.val)

C5_Witness ==
    /\ query = "1.2.840.10008.1.2" \o NUL
    /\ found.some
    /\ found.val.some
    /\ found.val.val.uid = "1.2.840.10008.1.2"
    /\ found.val.val.name = "Implicit VR Little Endian"

\* the descriptor that get gives for the UID of submission i
Retrieved(i) == get(registry, submissions[i].uid)
\* submission i is the first use of its UID
FirstOfUid(i) ==
    /\ submissions[i].uid \notin {ts.uid : ts \in BuiltIn}
    /\ \A k \in 1..(i - 1) : submissions[k].uid # submissions[i].uid

\* C6 as stated: every descriptor submitted is retrieved by its UID with its name
C6_EverySubmissionRetrieved ==
    \A i \in 1..Len(submissions) :
        Retrieved(i).some /\ Retrieved(i).val.name = submissions[i].name

\* C6, amended: every descriptor submitted under a UID that no built-in and no
\* earlier submission uses is retrieved by its UID with its name; with the
\* codec EncapsulatedPixelData it is not fully supported, its pixel
\* encapsulation is unsupported, and its data set decoder is there
C6_FirstSubmissionRetrieved ==
    \A i \in 1..Len(submissions) :
        FirstOfUid(i) =>
            /\ Retrieved(i).some
            /\ Retrieved(i).val.name = submissions[i].name
            /\ submissions[i].codec = "EncapsulatedPixelData" =>
                /\ ~fully_supported(Retrieved(i).val)
                /\ unsupported_pixel_encapsulation(Retrieved(i).val)
                /\ decoder(Retrieved(i).val).some

C6_Witness ==
    /\ frozen
    /\ Len(submissions) = 3
    /\ submissions[3].name = "Dummy Little Endian"
    /\ query = "1.2.840.10008.1.999.9999.99999"
    /\ found.some
    /\ found.val.some
    /\ found.val.val.name = "Dummy Little Endian"
    /\ ~fully_supported(found.val.val)
    /\ decoder(found.val.val) = Some("ExplicitVRLittleEndian")

----------------------------------------------------------------------------
(* Properties of tags (SpecTag) *)

\* C7: the 8-hex-digit form of a tag, parsed as a JSON string, is the tag;
\* "00080010" is (0008,0010) and "00200013" is (0020,0013)
C7_ParseInvertsFormat ==
    tagPc = "read" =>
        /\ tagParsed.val = Ok(tag)
        /\ (tagText = "00080010" => tagParsed.val = Ok(Tag(8, 16)))
        /\ (tagText = "00200013" => tagParsed.val = Ok(Tag(32, 19)))

C7_Witness ==
    /\ tagPc = "read"
    /\ tagText = "00200013"
    /\ tagParsed = Some(Ok(Tag(32, 19)))

----------------------------------------------------------------------------
(* Properties of the length of a value (SpecValue) *)

\* C8: the length of an element built from a single string is defined and is
\* the number of bytes of the string, also when that number is odd
C8_LengthOfStr ==
    (valPc # "value" /\ elemValue.pv = "Str") =>
        /\ elemLen.val = Defined(Utf8Len(elemValue.s))
        /\ (elemValue.s = "Simões^João" => elemLen.val = Defined(13))

C8_Witness ==
    /\ valPc = "element"
    /\ elemValue = Str("Simões^João")
    /\ elemLen = Some(Defined(13))

\* C9: calculate_byte_length of a value is even, and is the number of bytes
\* the encoder writes for the value
C9_EvenWireLength ==
    valPc = "written" =>
        /\ calculate_byte_length(elemValue) % 2 = 0
        /\ calculate_byte_length(elemValue) = Len(written.val)

----------------------------------------------------------------------------
(* Properties of the "Value" arms (Spec) *)

\* the array of the last "Value" entry of the document
ValueArray == doc[CHOOSE i \in 1..Len(doc) : doc[i][1] = "Value" /\ \A k \in (i + 1)..Len(doc) : doc[k][1] # "Value"][2].v
\* the text of a string or number entry as the document has it
EntryText(j) ==
    CASE j.kind = "string" -> j.v
      [] j.kind = "number" -> IntToString(j.v)
      [] j.kind = "float" -> j.text
AcceptedWithValue == Accepted /\ "Value" \in Keys

\* C11: for DS and IS, the decoded Strs value holds, for every entry of the
\* "Value" array, the text of the entry as the document has it, whether the
\* entry is a string or a number
C11_OriginalTextRetained ==
    (AcceptedWithValue /\ element.vr \in {"DS", "IS"}) =>
        /\ element.value = Primitive(Prim("Strs", element.value.prim.vals))
        /\ Len(element.value.prim.vals) = Len(ValueArray)
        /\ \A i \in 1..Len(ValueArray) : element.value.prim.vals[i] = EntryText(ValueArray[i])

\* the variant that the claim gives for each VR
ClaimedVariant(r) ==
    CASE r \in TextVRs \cup {"PN", "DS", "IS"} -> "Strs"
      [] r = "SS" -> "I16"
      [] r \in {"US", "OW"} -> "U16"
      [] r = "SL" -> "I32"
      [] r = "OB" -> "U8"
      [] r \in {"UL", "OL"} -> "U32"
      [] r = "SV" -> "I64"
      [] r \in {"UV", "OV"} -> "U64"
      [] r \in {"FL", "OF"} -> "F32"
      [] r \in {"FD", "OD"} -> "F64"
      [] r = "AT" -> "Tags"
IntegerVRs == {"SS", "US", "OW", "SL", "OB", "UL", "OL", "SV", "UV", "OV"}
\* the members of the decoded value, of a primitive value or of a sequence
Members == IF element.value.variant = "Sequence" THEN element.value.items ELSE element.value.prim.vals

\* the "Value" array is decoded into the variant fixed by the VR, with as many
\* members as entries, in the order of the entries
VariantByVR ==
    AcceptedWithValue =>
        /\ (element.vr = "SQ" <=> element.value.variant = "Sequence")
        /\ (element.vr # "SQ" => element.value.prim.pv = ClaimedVariant(element.vr))
        /\ Len(Members) = Len(ValueArray)
        /\ \A i \in 1..Len(ValueArray) :
            /\ (element.vr \in TextVRs => Members[i] = ValueArray[i].v)
            /\ (element.vr \in IntegerVRs /\ ValueArray[i].kind = "number"
                    => Members[i] = ValueArray[i].v)
            /\ (element.vr = "AT" => Members[i] = Tag_from_str(ValueArray[i].v).val)
            /\ (element.vr = "SQ" => Ok(Members[i]) = DeObject(ValueArray[i]))

\* the element that put stores for the decoded VR and value, and the element
\* made of the only string of the array
Stored == DataElement_new(Tag(8, 5), element.vr, element.value)
OfString == DataElement_new(Tag(8, 5), element.vr, Primitive(Str(ValueArray[1].v)))

\* C12: the "Value" array is decoded into the variant fixed by the VR, in
\* the order and number of its entries, and the element of a text VR with
\* the single entry s is equal to DataElement::new(tag, vr, s)
C12_VariantAndEquality ==
    /\ VariantByVR
    /\ (AcceptedWithValue /\ element.vr \in TextVRs /\ Len(ValueArray) = 1)
            => DataElement_eq(Stored, OfString)

----------------------------------------------------------------------------
(* Properties of the deserializer of a data set (SpecObject) *)

\* the tag of entry i of the document, and the element made of the entry
TagOfEntry(i) == Tag_from_str(objDoc[i][1]).val
ElementOfEntry(i) ==
    DataElement_new(TagOfEntry(i), JsonDataElement_deserialize(objDoc[i][2]).val.vr,
                    JsonDataElement_deserialize(objDoc[i][2]).val.value)
\* entry i is the last entry of its tag
LastOfTag(i) == \A k \in (i + 1)..Len(objDoc) : TagOfEntry(k) # TagOfEntry(i)

\* C13: while no entry has failed, the object holds for every tag of the
\* document the element of the last entry with that tag and nothing else, as
\* many elements as distinct tags, and iterates in ascending tag order
C13_LastPutWinsInTagOrder ==
    objPc \in {"loop", "done"} =>
        /\ \A i \in 1..Len(objDoc) :
                LastOfTag(i) => element_get(obj, TagOfEntry(i)) = Some(ElementOfEntry(i))
        /\ DOMAIN obj = {TagOfEntry(i) : i \in 1..Len(objDoc)}
        /\ Len(iter(obj)) = Cardinality({TagOfEntry(i) : i \in 1..Len(objDoc)})
        /\ \A i \in 1..Len(iter(obj)) : iter(obj)[i] = obj[iter(obj)[i].tag]
        /\ \A i, k \in 1..Len(iter(obj)) : i < k => TagLess(iter(obj)[i].tag, iter(obj)[k].tag)

C13_Witness ==
    /\ objPc = "done"
    /\ Len(objDoc) = 3
    /\ objDoc[1][1] = "0020000d"
    /\ objDoc[2][1] = "00080005"
    /\ objDoc[3][1] = "0020000D"
    /\ objDoc[1][2] # objDoc[3][2]
    /\ Len(iter(obj)) = 2
    /\ iter(obj)[1].tag = Tag(8, 5)
    /\ iter(obj)[2] = ElementOfEntry(3)

----------------------------------------------------------------------------
(* Properties of decode_pixel_data (SpecPixel) *)

Started == pixPc \notin {"idle", "start"}
Ended == pixPc \in {"done", "err", "panic"}
Returned(kind, what) == pixPc = "err" /\ pixResult = Some(PixelError(kind, what))
Decoded_ == pixPc = "done" /\ pixResult.some /\ IsOk(pixResult.val)
output == pixResult.val.val
pixel == pixObj.attrs["pixel_data"]
UnknownUid == ~get(PixelRegistry, pixObj.transfer_syntax).some
\* every read and check before the match passes
ReachesMatch ==
    /\ pixObj.failing \cap (Range(HeadAttributes) \cup Range(TailAttributes)) = {}
    /\ pixObj.attrs["photometric_interpretation"] \in GdcmPhotometricInterpretations
    /\ TrimPadding(pixObj.transfer_syntax) \in GdcmTransferSyntaxes

\* C14: on an object whose transfer syntax UID the registry does not know,
\* decode_pixel_data returns UnknownTransferSyntax with that UID
C14_UnknownTransferSyntax ==
    (Ended /\ UnknownUid) => Returned("UnknownTransferSyntax", pixObj.transfer_syntax)

\* C15 as stated: on an object whose Pixel Data is a Value::Sequence,
\* decode_pixel_data returns InvalidPixelData
C15_SequenceIsInvalid ==
    (Ended /\ pixel.variant = "Sequence") => Returned("InvalidPixelData", "")

\* C15, amended: on an object whose Pixel Data is a Value::Sequence,
\* decode_pixel_data returns an error; it is InvalidPixelData when every
\* read and check before the match passes
C15_SequenceIsInvalidAfterChecks ==
    (Started /\ pixel.variant = "Sequence") =>
        /\ pixPc \in {"match", "err"}
        /\ (ReachesMatch /\ Ended => Returned("InvalidPixelData", ""))

C15_Witness ==
    /\ pixel.variant = "Sequence"
    /\ pixObj.transfer_syntax = ExplicitVRLittleEndian
    /\ Returned("InvalidPixelData", "")

C17_PlanarConfigurationOfObject ==
    (Decoded_ /\ pixel.variant = "Primitive") =>
        output.planar_configuration = pixObj.attrs["planar_configuration"]

\* C18: the photometric interpretation of every output is MONOCHROME2 for
\* 1 sample per pixel, RGB for 3, and that of the object otherwise
C18_PhotometricFromSamples ==
    Decoded_ =>
        /\ (pixObj.attrs["samples_per_pixel"] = 1 => output.photometric_interpretation = "MONOCHROME2")
        /\ (pixObj.attrs["samples_per_pixel"] = 3 => output.photometric_interpretation = "RGB")
        /\ (pixObj.attrs["samples_per_pixel"] \notin {1, 3}
                => output.photometric_interpretation = pixObj.attrs["photometric_interpretation"])

C18_Witness ==
    /\ Decoded_
    /\ pixel.variant = "PixelSequence"
    /\ pixObj.attrs["samples_per_pixel"] = 3
    /\ pixObj.attrs["photometric_interpretation"] = "YBR_FULL"
    /\ output.photometric_interpretation = "RGB"

\* the last entry handed out, and a document of "InlineBinary" keys after
\* the leading "vr"
LastEntry == doc[Len(doc)]
OnlyInlineBinary == Len(doc) >= 2 /\ \A i \in 2..Len(doc) : doc[i][1] = "InlineBinary"

\* C24: after the leading "vr", a key other than "Value" and "InlineBinary"
\* (a second "vr", "BulkDataURI", "InlineData") is a parse error; "vr" alone
\* gives an element of the empty value; an "InlineBinary" that is valid
\* standard base64 gives the decoded bytes under the VR given, whatever it
\* is, and one that is not is a parse error
C24_OnlyValueAndInlineBinary ==
    /\ (\E i \in 2..Len(doc) : doc[i][1] \notin {"Value", "InlineBinary"}) => Failed
    /\ (Accepted /\ Len(doc) = 1) => element.value = Primitive(Empty)
    /\ (pc = "done" /\ OnlyInlineBinary) =>
            /\ LastEntry[2].kind = "string"
            /\ IsOk(Base64Decode(LastEntry[2].v))
            /\ element = [vr |-> vr, value |-> Primitive(Prim("U8", Base64Decode(LastEntry[2].v).val))]
    /\ (pc = "err" /\ OnlyInlineBinary) =>
            \/ LastEntry[2].kind # "string"
            \/ ~IsOk(Base64Decode(LastEntry[2].v))

C24_Witness ==
    /\ Accepted
    /\ doc = << << "vr", JStr("SQ") >>, << "InlineBinary", JStr("AQ=") >>, << "InlineBinary", JStr("AQ==") >> >>
    /\ element = [vr |-> "SQ", value |-> Primitive(Prim("U8", << 1 >>))]

\* the decoder that the PixelSequence arm has called is the multi-frame one,
\* of all the fragments in their order and of (cols, rows, number_of_frames),
\* when there are two fragments or more, and the single-frame one, of the
\* only fragment, when there is one; the error of the decoder is returned
\* as DecodePixelData with its message
CalledByFragmentCount ==
    pixCall.some =>
        /\ pixel.variant = "PixelSequence"
        /\ IF Len(pixel.fragments) > 1
           THEN /\ pixCall.val.call.fn = "decode_multi_frame_compressed"
                /\ pixCall.val.call.fragments = pixel.fragments
                /\ pixCall.val.call.dims = << pixObj.attrs["cols"], pixObj.attrs["rows"],
                                             pixObj.attrs["number_of_frames"] >>
           ELSE /\ Len(pixel.fragments) = 1
                /\ pixCall.val.call.fn = "decode_single_frame_compressed"
                /\ pixCall.val.call.fragments = << pixel.fragments[1] >>
        /\ (IsErr(pixCall.val.returned)
                => Returned("DecodePixelData", pixCall.val.returned.msg))
        /\ (IsOk(pixCall.val.returned) => pixData = pixCall.val.returned.val)

\* C20: when the Pixel Data value is a PixelSequence, decode_pixel_data
\* calls the multi-frame decoder when there are two fragments or more and the
\* single-frame decoder otherwise, as CalledByFragmentCount says, and the
\* error of the decoder is returned as DecodePixelData
C20_DecoderByFragmentCount ==
    /\ CalledByFragmentCount
    /\ (Ended /\ ReachesMatch /\ pixel.variant = "PixelSequence")
            => pixCall.some

\* C22: decode_pixel_data ends by returning a DecodedPixelData or one of the
\* errors of the pipeline, on every object, one of a PixelSequence without
\* fragments among them: it never aborts
C22_NeverAborts ==
    /\ pixPc # "panic"
    /\ (pixResult.some => IsOk(pixResult.val) \/ IsErr(pixResult.val))

\* the checks in the order claimed: reads of attributes by their names, and
\* between them the checks of the photometric interpretation, of the
\* transfer syntax, and the match on the value
ClaimedChecks ==
    << "pixel_data", "cols", "rows", "photometric_interpretation",
       "UnsupportedPhotometricInterpretation", "UnknownTransferSyntax", "UnsupportedTransferSyntax",
       "samples_per_pixel", "bits_allocated", "bits_stored", "high_bit",
       "pixel_representation", "number_of_frames", "voi_lut_function",
       "InvalidPixelData", "DecodePixelData", "window_center", "window_width" >>

CheckFails(c) ==
    CASE c = "UnsupportedPhotometricInterpretation" ->
            pixObj.attrs["photometric_interpretation"] \notin GdcmPhotometricInterpretations
      [] c = "UnknownTransferSyntax" -> UnknownUid
      [] c = "UnsupportedTransferSyntax" ->
            ~UnknownUid /\ TrimPadding(pixObj.transfer_syntax) \notin GdcmTransferSyntaxes
      [] c = "InvalidPixelData" -> pixel.variant = "Sequence"
      [] c = "DecodePixelData" -> pixCall.some /\ IsErr(pixCall.val.returned)
      [] c = "window_width" ->
            pixObj.attrs["window_center"].some /\ "window_width" \in pixObj.failing
      [] OTHER -> c \in pixObj.failing

ErrorOfCheck(c) ==
    CASE c = "UnsupportedPhotometricInterpretation" ->
            PixelError(c, pixObj.attrs["photometric_interpretation"])
      [] c \in {"UnknownTransferSyntax", "UnsupportedTransferSyntax"} ->
            PixelError(c, pixObj.transfer_syntax)
      [] c = "InvalidPixelData" -> PixelError(c, "")
      [] c = "DecodePixelData" -> PixelError(c, "decoder failure")
      [] OTHER -> PixelError("GetAttribute", c)

FailingChecks == {i \in 1..Len(ClaimedChecks) : CheckFails(ClaimedChecks[i])}
FirstFailing == CHOOSE i \in FailingChecks : \A j \in FailingChecks : i <= j

\* C23: the error that decode_pixel_data returns is the error of the first
\* failing check in the order of ClaimedChecks, and it returns no error when
\* no check fails; an object without Rescale Intercept or Rescale Slope, or
\* with a VOI LUT Function that is not a known one, fails no check
C23_FirstFailingCheck ==
    /\ pixPc = "err" =>
            /\ FailingChecks # {}
            /\ pixResult = Some(ErrorOfCheck(ClaimedChecks[FirstFailing]))
    /\ pixPc = "done" => FailingChecks = {} /\ IsOk(pixResult.val)

C23_Witness ==
    /\ pixPc = "err"
    /\ pixObj.attrs["photometric_interpretation"] = "XYZ"
    /\ pixObj.transfer_syntax = "1.2.3.4"
    /\ pixel.variant = "Sequence"
    /\ pixObj.failing = {"rescale_slope", "samples_per_pixel"}
    /\ pixResult = Some(PixelError("UnsupportedPhotometricInterpretation", "XYZ"))

----------------------------------------------------------------------------
(* Properties of decode_header under Explicit VR Little Endian (SpecHeader) *)

HeaderDecoded == hdrPc = "done" /\ hdrResult.some /\ IsOk(hdrResult.val)
header == hdrResult.val.val.header
bytes_read == hdrResult.val.val.bytes_read
\* the bytes of the source from one place to another
SourceBytes(from, to) == SubSeq(hdrSource, from, to)
IsDelimiterSource ==
    /\ SourceBytes(1, 2) = << 254, 255 >>
    /\ SourceBytes(3, 4) \in {<< 0, 224 >>, << 13, 224 >>, << 221, 224 >>}

\* C19: a decoded header has the tag of the first 4 bytes; of a delimiter
\* tag it has VR UN, the 4-byte length that follows the tag, and 8 bytes
\* read; of a VR among OB, OD, OF, OL, OV, OW, SQ, UC, UN, UR, UT, UV it has
\* the 4-byte length that follows the 2 reserved bytes, and 12 bytes read;
\* of any other VR the 2-byte length, and 8 bytes read; the source has been
\* consumed up to the first byte of the value
C19_ExplicitVRHeader ==
    HeaderDecoded =>
        /\ header.tag = Tag(hdrSource[1] + 256 * hdrSource[2], hdrSource[3] + 256 * hdrSource[4])
        /\ IF IsDelimiterSource
           THEN /\ header.vr = "UN"
                /\ header.len = decode_length_ul(SourceBytes(5, 8))
                /\ bytes_read = 8
           ELSE /\ header.vr = VR_from_binary(SourceBytes(5, 6))
                /\ IF header.vr \in {"OB", "OD", "OF", "OL", "OV", "OW", "SQ", "UC", "UN", "UR", "UT", "UV"}
                   THEN /\ bytes_read = 12
                        /\ Len(hdrSource) >= 12
                        /\ header.len = decode_length_ul(SourceBytes(9, 12))
                   ELSE /\ header.len = Defined(hdrSource[7] + 256 * hdrSource[8])
                        /\ bytes_read = 8
        /\ hdrPos = bytes_read

C19_Witness ==
    /\ HeaderDecoded
    /\ Len(hdrSource) > 12
    /\ SourceBytes(1, 12) = << 224, 127, 16, 0, 79, 66, 0, 0, 255, 255, 255, 255 >>
    /\ header = DataElementHeader(Tag(32736, 16), "OB", Undefined)
    /\ bytes_read = 12
    /\ hdrPos = 12

----------------------------------------------------------------------------
(* Properties of the bulk decodes (SpecBulk) *)

\* the bytes of the i-th value of the source
BytesOfValue(i) == SubSeq(bulkSource, (i - 1) * Width(bulkKind) + 1, i * Width(bulkKind))
\* the reads that fail when the reads before them have not: the one that the
\* source fails, and those for which the source has too few bytes
FailingReads ==
    {j \in 1..Len(bulkDst) : j = bulkFailAt \/ j * Width(bulkKind) > Len(bulkSource)}
FirstFailingRead == CHOOSE k \in FailingReads : \A j \in FailingReads : k <= j

\* C21: a bulk decode that succeeds has made as many reads as the
\* destination has places, and none for an empty destination, and place i
\* holds the i-th value of the source; one whose k-th read is the first to
\* fail returns the error of that read after k reads, with the k - 1 values
\* decoded in the first places and the other places as they were
C21_SequentialBulkDecode ==
    /\ bulkPc = "done" =>
            /\ FailingReads = {}
            /\ bulkResult = Some(Ok(<< >>))
            /\ bulkReads = Len(bulkDst)
            /\ bulkPos = Len(bulkDst) * Width(bulkKind)
            /\ \A i \in 1..Len(bulkDst) : bulkDst[i] = ValueOf(bulkKind, BytesOfValue(i))
    /\ bulkPc = "err" =>
            /\ FailingReads # {}
            /\ bulkReads = FirstFailingRead
            /\ bulkResult = Some(Err(IF FirstFailingRead = bulkFailAt THEN "broken pipe"
                                     ELSE "failed to fill whole buffer"))
            /\ \A i \in 1..Len(bulkDst) :
                    bulkDst[i] = IF i < FirstFailingRead THEN ValueOf(bulkKind, BytesOfValue(i))
                                 ELSE OldValue(i)
    /\ Len(bulkDst) = 0 => bulkReads = 0 /\ bulkPc # "err"

C21_Witness ==
    /\ bulkPc = "err"
    /\ bulkKind = "ss"
    /\ bulkSource = << 36, 73, 110 >>
    /\ bulkFailAt = 0
    /\ bulkReads = 2
    /\ bulkDst = << [ty |-> "ss", words |-> << 18724 >>], OldValue(2) >>
    /\ bulkResult = Some(Err("failed to fill whole buffer"))

====
